---- MODULE Spec2Model ----
(***************************************************************************)
(* Model of api/clan_analyzer.py: the Historical Accumulator               *)
(* (update_player_historical_stats), the war identifiers (generate_war_id  *)
(* and the CWL identifier of analyze_cwl), the part of main that records   *)
(* the current war, and the Rush Scorer (generate_rush_report) with its    *)
(* reference tables.                                                       *)
(*                                                                         *)
(* Python dicts are functions, lists are sequences, None is the record     *)
(* [none |-> TRUE].  Python floats are IEEE-754 binary64 numbers; the scorer's      *)
(* floats are modelled bit-exactly (section FLOATS).                       *)
(***************************************************************************)
EXTENDS Integers, Sequences, FiniteSets, TLC

VARIABLES
    historical_data,  \* the in-memory store (dict loaded by main)
    last,             \* the last operation on the store: arguments and branch taken
    disk,             \* the content of DATA_FILE ("NoFile" when it does not exist)
    pc,               \* the position of main
    player,           \* the Player Snapshot given to generate_rush_report
    report,           \* its Rush Report ("None" before the call)
    player2,          \* a second snapshot, derived from player
    report2,          \* its Rush Report
    rel,              \* how player2 was derived from player
    war_input,        \* the war record given to analyze_war_attacks
    war_output,       \* what analyze_war_attacks returned ("None" before the call)
    run               \* what one run of main has done so far: reads, writes, exports

vars == <<historical_data, last, disk, pc, player, report, player2, report2, rel,
          war_input, war_output, run>>

accVars == <<historical_data, last>>
mainVars == <<disk, pc>>
rushVars == <<player, report, player2, report2, rel>>
warVars == <<war_input, war_output>>
runVars == <<run>>

None == [none |-> TRUE]

Max(a, b) == IF a >= b THEN a ELSE b
Min(a, b) == IF a <= b THEN a ELSE b

\* x in list
InSeq(x, s) == \E i \in 1..Len(s) : s[i] = x

RECURSIVE SumSeq(_)
SumSeq(s) == IF s = <<>> THEN 0 ELSE Head(s) + SumSeq(Tail(s))

\* all sequences over S of length at most n
SeqsUpTo(S, n) == UNION {[1..k -> S] : k \in 0..n}

(***************************************************************************)
(* BOUNDS                                                                  *)
(***************************************************************************)
MaxAttacks == 2   \* attacks in one attack payload
MaxHistory == 2   \* attack records held by the whole store
MaxAssets == 3    \* assets listed in one player snapshot

(***************************************************************************)
(* DATA PERSISTENCE                                                        *)
(***************************************************************************)
CLAN_TAG == "#2J28LL2VU"

create_empty_data_structure ==
    [clan_tag     |-> CLAN_TAG,
     last_updated |-> None,
     players      |-> <<>>,
     cwl_seasons  |-> <<>>,
     wars         |-> <<>>,
     war_log      |-> <<>>]

NoFile == [nofile |-> TRUE]

\* a DATA_FILE that holds no JSON document: "empty" has no bytes, "truncated"
\* is a proper prefix of a document that decodes as UTF-8, "undecodable" is
\* cut inside a multi-byte character or holds other bytes that are not UTF-8
CorruptFile(kind) == [corrupt |-> kind]

CorruptKinds == {"empty", "truncated", "undecodable"}

IsCorrupt(file) == file \in {CorruptFile(k) : k \in CorruptKinds}

\* an exception that leaves the function
Raised(exception) == [raised |-> exception]

\* the store read from DATA_FILE: the empty structure when there is no file
\* or json.load raises JSONDecodeError; the UnicodeDecodeError of f.read()
\* is none of the exceptions the function catches
load_historical_data(file) ==
    IF file = NoFile THEN create_empty_data_structure
    ELSE IF file = CorruptFile("undecodable") THEN Raised("UnicodeDecodeError")
    ELSE IF IsCorrupt(file) THEN create_empty_data_structure
    ELSE file

\* datetime.now().isoformat() as the value of last_updated, which is None before
Timestamp(now) == [isoformat |-> now]

\* the content of DATA_FILE after open(DATA_FILE, 'w')
open_for_writing == CorruptFile("empty")

\* the content of DATA_FILE when the write buffer was flushed before json.dump ended
flushed_buffer == CorruptFile("truncated")

\* the content of DATA_FILE after json.dump(data, f)
save_historical_data(data) == data

\* generate_war_id that also reads the war's state
generate_war_id_withState(war) ==
    war.clan.tag \o "_" \o war.opponent.tag \o "_" \o war.preparationStartTime
        \o "_" \o war.state

\* f"{clan_tag}_{opponent_tag}_{prep_time}"
generate_war_id(war) ==
    LET clan_tag     == war.clan.tag
        opponent_tag == war.opponent.tag
        prep_time    == war.preparationStartTime
    IN  clan_tag \o "_" \o opponent_tag \o "_" \o prep_time

(***************************************************************************)
(* HISTORICAL ACCUMULATOR                                                  *)
(***************************************************************************)
\* the zero-valued record of an unseen player
NewPlayerRecord(player_tag, player_name, th_level) ==
    [name              |-> player_name,
     tag               |-> player_tag,
     current_th        |-> th_level,
     total_attacks     |-> 0,
     total_stars       |-> 0,
     total_destruction |-> 0,
     three_stars       |-> 0,
     two_stars         |-> 0,
     one_star          |-> 0,
     zero_stars        |-> 0,
     wars_participated |-> 0,
     cwl_seasons       |-> 0,
     attacks_history   |-> <<>>,
     war_ids           |-> <<>>]

\* if player_tag not in historical_data["players"]: ... = {zero record}
EnsurePlayer(players, player_tag, player_name, th_level) ==
    IF player_tag \in DOMAIN players
    THEN players
    ELSE players @@ (player_tag :> NewPlayerRecord(player_tag, player_name, th_level))

\* RefreshPlayer overwriting the tier instead of keeping the maximum
RefreshPlayer_overwrite(p, player_name, th_level) ==
    [p EXCEPT !.name = player_name,
              !.current_th = th_level]

\* player["name"] = player_name; player["current_th"] = max(..., th_level)
RefreshPlayer(p, player_name, th_level) ==
    [p EXCEPT !.name = player_name,
              !.current_th = Max(p.current_th, th_level)]

\* WarAlreadyRecorded without the membership test (no early return)
WarAlreadyRecorded_never(p, war_id) == FALSE

\* if war_id in player["war_ids"]: return
WarAlreadyRecorded(p, war_id) == InSeq(war_id, p.war_ids)

\* RecordParticipation that appends the ID without counting the war
RecordParticipation_uncounted(p, war_id) ==
    [p EXCEPT !.war_ids = Append(p.war_ids, war_id)]

\* player["war_ids"].append(war_id); player["wars_participated"] += 1
RecordParticipation(p, war_id) ==
    [p EXCEPT !.war_ids = Append(p.war_ids, war_id),
              !.wars_participated = p.wars_participated + 1]

\* the detail record appended to attacks_history
AttackRecord(attack, war_id, war_type, now, th_level) ==
    [war_id      |-> war_id,
     war_type    |-> war_type,
     date        |-> now,
     stars       |-> attack.stars,
     destruction |-> attack.destruction,
     defender_th |-> attack.defender_th,
     attacker_th |-> th_level,
     hit_type    |-> attack.hit_type]

\* StarBucket without a bucket for one star: the attack lands in total_stars
StarBucket_oneStarLost(stars) ==
    IF stars = 3 THEN "three_stars"
    ELSE IF stars = 2 THEN "two_stars"
    ELSE IF stars = 1 THEN "total_stars"
    ELSE "zero_stars"

\* the star bucket incremented for an attack
StarBucket(stars) ==
    IF stars = 3 THEN "three_stars"
    ELSE IF stars = 2 THEN "two_stars"
    ELSE IF stars = 1 THEN "one_star"
    ELSE "zero_stars"

\* AddAttack forgetting the stars total
AddAttack_noStars(p, attack, war_id, war_type, now, th_level) ==
    LET q == [p EXCEPT
                !.attacks_history   = Append(p.attacks_history,
                                         AttackRecord(attack, war_id, war_type, now, th_level)),
                !.total_attacks     = p.total_attacks + 1,
                !.total_destruction = p.total_destruction + attack.destruction]
        b == StarBucket(attack.stars)
    IN  [q EXCEPT ![b] = q[b] + 1]

\* one iteration of "for attack in attack_data.get('attacks', [])"
AddAttack(p, attack, war_id, war_type, now, th_level) ==
    LET q == [p EXCEPT
                !.attacks_history   = Append(p.attacks_history,
                                         AttackRecord(attack, war_id, war_type, now, th_level)),
                !.total_attacks     = p.total_attacks + 1,
                !.total_stars       = p.total_stars + attack.stars,
                !.total_destruction = p.total_destruction + attack.destruction]
        b == StarBucket(attack.stars)
    IN  [q EXCEPT ![b] = q[b] + 1]

RECURSIVE AddAttacks(_, _, _, _, _, _)
AddAttacks(p, attacks, war_id, war_type, now, th_level) ==
    IF attacks = <<>> THEN p
    ELSE AddAttacks(AddAttack(p, Head(attacks), war_id, war_type, now, th_level),
                    Tail(attacks), war_id, war_type, now, th_level)

\* the whole function; returns the store after the call
update_player_historical_stats(hd, player_tag, player_name, th_level, attack_data, war_type, war_id, now) ==
    LET players1 == EnsurePlayer(hd.players, player_tag, player_name, th_level)
        p1       == RefreshPlayer(players1[player_tag], player_name, th_level)
        p2       == IF WarAlreadyRecorded(p1, war_id)
                    THEN p1
                    ELSE AddAttacks(RecordParticipation(p1, war_id),
                                    attack_data.attacks, war_id, war_type, now, th_level)
    IN  [hd EXCEPT !.players = [players1 EXCEPT ![player_tag] = p2]]

\* attack records held by the store
RECURSIVE HistorySize(_, _)
HistorySize(players, tags) ==
    IF tags = {} THEN 0
    ELSE LET t == CHOOSE x \in tags : TRUE
         IN  Len(players[t].attacks_history) + HistorySize(players, tags \ {t})

StoreHistorySize(hd) == HistorySize(hd.players, DOMAIN hd.players)

(***************************************************************************)
(* WAR-ATTACK EXTRACTOR                                                    *)
(***************************************************************************)
\* opponent_lookup.get(defender_tag, {}): the last roster entry with the tag
OpponentLookup(opponent_members, defender_tag) ==
    LET hits == {i \in 1..Len(opponent_members) : opponent_members[i].tag = defender_tag}
    IN  IF hits = {} THEN None
        ELSE opponent_members[CHOOSE i \in hits : \A j \in hits : j <= i]

\* sorted(clan_members, key=mapPosition): a stable insertion sort
RECURSIVE InsertByPosition(_, _)
InsertByPosition(sorted, m) ==
    IF sorted = <<>> THEN <<m>>
    ELSE IF Head(sorted).mapPosition <= m.mapPosition
         THEN <<Head(sorted)>> \o InsertByPosition(Tail(sorted), m)
         ELSE <<m>> \o sorted

RECURSIVE SortByPosition(_)
SortByPosition(members) ==
    IF members = <<>> THEN <<>>
    ELSE InsertByPosition(SortByPosition(SubSeq(members, 1, Len(members) - 1)),
                          members[Len(members)])

\* the entry created for a member the first time its tag is met
InitPlayerStats(member) ==
    [name              |-> member.name,
     tag               |-> member.tag,
     th                |-> member.townhallLevel,
     attacks           |-> <<>>,
     total_stars       |-> 0,
     total_destruction |-> 0,
     new_stars         |-> 0,
     attacks_used      |-> 0,
     missed_attacks    |-> 0,
     three_stars       |-> 0,
     two_stars         |-> 0,
     one_star          |-> 0,
     zero_stars        |-> 0,
     hit_up            |-> 0,
     hit_same          |-> 0,
     hit_down          |-> 0]

\* HitType that counts an equal tier as a hit up
HitType_upOrSame(defender_th, th) ==
    IF defender_th >= th THEN "UP" ELSE "DOWN"

\* "UP" when the defender's tier is higher, "DOWN" when lower, else "SAME"
HitType(defender_th, th) ==
    IF defender_th > th THEN "UP"
    ELSE IF defender_th < th THEN "DOWN"
    ELSE "SAME"

HitCounter(hit_type) ==
    IF hit_type = "UP" THEN "hit_up"
    ELSE IF hit_type = "DOWN" THEN "hit_down"
    ELSE "hit_same"

\* one iteration of "for attack in attacks" on the member's entry st
ExtractAttack(st, attack, th, opponent_members) ==
    LET defender     == OpponentLookup(opponent_members, attack.defenderTag)
        defender_th  == IF defender = None THEN 0 ELSE defender.townhallLevel
        defender_pos == IF defender = None THEN 0 ELSE defender.mapPosition
        stars        == attack.stars
        destruction  == attack.destructionPercentage
        hit_type     == HitType(defender_th, th)
        hc           == HitCounter(hit_type)
        b            == StarBucket(stars)
        st1 == [st EXCEPT ![hc] = st[hc] + 1]
        st2 == [st1 EXCEPT
                  !.attacks = Append(st1.attacks,
                                [stars        |-> stars,
                                 destruction  |-> destruction,
                                 defender_th  |-> defender_th,
                                 defender_pos |-> defender_pos,
                                 hit_type     |-> hit_type]),
                  !.total_stars       = st1.total_stars + stars,
                  !.total_destruction = st1.total_destruction + destruction,
                  !.attacks_used      = st1.attacks_used + 1]
    IN  [st2 EXCEPT ![b] = st2[b] + 1]

RECURSIVE ExtractAttacks(_, _, _, _)
ExtractAttacks(st, attacks, th, opponent_members) ==
    IF attacks = <<>> THEN st
    ELSE ExtractAttacks(ExtractAttack(st, Head(attacks), th, opponent_members),
                        Tail(attacks), th, opponent_members)

\* position of the tag's entry in player_stats (0 when absent)
StatsIndex(player_stats, tag) ==
    IF \E i \in 1..Len(player_stats) : player_stats[i].tag = tag
    THEN CHOOSE i \in 1..Len(player_stats) : player_stats[i].tag = tag
    ELSE 0

ExtractMember_skipsIdle(player_stats, member, opponent_members) ==
    LET ps1 == IF StatsIndex(player_stats, member.tag) = 0
               THEN Append(player_stats, InitPlayerStats(member))
               ELSE player_stats
        i   == StatsIndex(ps1, member.tag)
    IN  IF member.attacks # <<>>
        THEN [ps1 EXCEPT ![i] = ExtractAttacks(ps1[i], member.attacks,
                                               member.townhallLevel, opponent_members)]
        ELSE player_stats

\* one iteration of "for member in members_sorted"
ExtractMember(player_stats, member, opponent_members) ==
    LET ps1 == IF StatsIndex(player_stats, member.tag) = 0
               THEN Append(player_stats, InitPlayerStats(member))
               ELSE player_stats
        i   == StatsIndex(ps1, member.tag)
    IN  IF member.attacks # <<>>
        THEN [ps1 EXCEPT ![i] = ExtractAttacks(ps1[i], member.attacks,
                                               member.townhallLevel, opponent_members)]
        ELSE [ps1 EXCEPT ![i].missed_attacks = 2]

RECURSIVE ExtractMembers(_, _, _)
ExtractMembers(player_stats, members, opponent_members) ==
    IF members = <<>> THEN player_stats
    ELSE ExtractMembers(ExtractMember(player_stats, Head(members), opponent_members),
                        Tail(members), opponent_members)

\* player_stats is a dict in insertion order: here the sequence of its values
analyze_war_attacks(war) ==
    IF war.clan.members = <<>> THEN <<>>
    ELSE ExtractMembers(<<>>, SortByPosition(war.clan.members), war.opponent.members)

\* returns [stats |-> the player stats], or None
analyze_current_war(war) ==
    IF war.state = "notInWar" THEN None
    ELSE IF war.state \in {"inWar", "warEnded", "preparation"}
         THEN [stats |-> analyze_war_attacks(war)]
         ELSE None

\* "for tag, stats in war_stats.items(): update_player_historical_stats(...)"
RECURSIVE RecordWarStats(_, _, _, _, _)
RecordWarStats(hd, war_stats, war_type, war_id, now) ==
    IF war_stats = <<>> THEN hd
    ELSE LET stats == Head(war_stats)
         IN  RecordWarStats(
                 update_player_historical_stats(hd, stats.tag, stats.name, stats.th,
                                                stats, war_type, war_id, now),
                 Tail(war_stats), war_type, war_id, now)

\* main, "Get current war and save attack data"
RecordCurrentWar(hd, current_war, now) ==
    IF current_war # None /\ current_war.state # "notInWar"
    THEN LET war_stats == analyze_current_war(current_war)
         IN  IF war_stats # None /\ war_stats.stats # <<>>
             THEN RecordWarStats(hd, war_stats.stats, "regular_war",
                                 generate_war_id(current_war), now)
             ELSE hd
    ELSE hd

(***************************************************************************)
(* CWL CROSS-WAR AGGREGATION                                               *)
(***************************************************************************)
\* f"cwl_{season}_round{round_num}_{war_tag}"
CwlWarId(season, round_num, war_tag) ==
    "cwl_" \o season \o "_round" \o ToString(round_num) \o "_" \o war_tag

\* the defaultdict's value for a tag not met yet
EmptySeasonStats ==
    [name |-> "", tag |-> "", th |-> 0, total_stars |-> 0, total_destruction |-> 0,
     attacks_used |-> 0, three_stars |-> 0, two_stars |-> 0, one_star |-> 0,
     zero_stars |-> 0, wars_participated |-> 0, hit_up |-> 0, hit_same |-> 0,
     hit_down |-> 0]

\* "Aggregate stats": all_player_stats[tag] updated with one war's stats
AggregateStats(all_player_stats, stats) ==
    LET old == IF stats.tag \in DOMAIN all_player_stats
               THEN all_player_stats[stats.tag] ELSE EmptySeasonStats
        new == [name              |-> stats.name,
                tag               |-> stats.tag,
                th                |-> Max(old.th, stats.th),
                total_stars       |-> old.total_stars + stats.total_stars,
                total_destruction |-> old.total_destruction + stats.total_destruction,
                attacks_used      |-> old.attacks_used + stats.attacks_used,
                three_stars       |-> old.three_stars + stats.three_stars,
                two_stars         |-> old.two_stars + stats.two_stars,
                one_star          |-> old.one_star + stats.one_star,
                zero_stars        |-> old.zero_stars + stats.zero_stars,
                wars_participated |-> old.wars_participated
                                        + (IF stats.attacks_used > 0 THEN 1 ELSE 0),
                hit_up            |-> old.hit_up + stats.hit_up,
                hit_same          |-> old.hit_same + stats.hit_same,
                hit_down          |-> old.hit_down + stats.hit_down]
    IN  [t \in DOMAIN all_player_stats \cup {stats.tag} |->
            IF t = stats.tag THEN new ELSE all_player_stats[t]]

\* "for tag, stats in war_stats.items()" of analyze_cwl, on the loop state st
RECURSIVE CwlRecordStats(_, _, _, _, _)
CwlRecordStats(st, war_stats, season, war_id, now) ==
    IF war_stats = <<>> THEN st
    ELSE LET stats == Head(war_stats)
             st1 == [st EXCEPT
                       !.all_player_stats = AggregateStats(st.all_player_stats, stats),
                       !.hd = update_player_historical_stats(st.hd, stats.tag, stats.name,
                                  stats.th, stats, "CWL_" \o season, war_id, now)]
         IN  CwlRecordStats(st1, Tail(war_stats), season, war_id, now)

\* which side of a fetched war carries our tag
OurSide_clanOnly(war, our_clan_tag) ==
    IF war.clan.tag = our_clan_tag THEN "clan" ELSE "none"

OurSide(war, our_clan_tag) ==
    IF war.clan.tag = our_clan_tag THEN "clan"
    ELSE IF war.opponent.tag = our_clan_tag THEN "opponent"
    ELSE "none"

\* "if state in ['inWar', 'warEnded']" lets every state through
WarInPlay_always(state) == TRUE

\* if state in ['inWar', 'warEnded']
WarInPlay(state) == state \in {"inWar", "warEnded"}

\* the body of "for war_tag in war_tags" on the loop state
\* st = [hd, all_player_stats, wars_analyzed, state, fetched_tags]; fetched[war_tag]
\* is the result of get_cwl_war(war_tag), fetched_tags the tags it was called with
CwlWarStep(st, our_clan_tag, season, round_num, war_tag, fetched, now) ==
    IF war_tag = "#0" THEN st
    ELSE LET war == fetched[war_tag]
             st0 == [st EXCEPT !.fetched_tags = Append(@, war_tag)]
         IN
         IF war = None THEN st0
         ELSE LET side     == OurSide(war, our_clan_tag)
                  our_clan == IF side = "clan" THEN war.clan ELSE war.opponent
                  opponent == IF side = "clan" THEN war.opponent ELSE war.clan
              IN  IF side = "none" THEN st0
                  ELSE LET st1 == [st0 EXCEPT !.wars_analyzed = st0.wars_analyzed + 1,
                                              !.state = war.state]
                           war_id == CwlWarId(season, round_num, war_tag)
                       IN  IF WarInPlay(war.state)
                           THEN CwlRecordStats(st1,
                                    analyze_war_attacks([clan |-> our_clan,
                                                         opponent |-> opponent]),
                                    season, war_id, now)
                           ELSE st1

RECURSIVE CwlWarTags(_, _, _, _, _, _, _)
CwlWarTags(st, our_clan_tag, season, round_num, war_tags, fetched, now) ==
    IF war_tags = <<>> THEN st
    ELSE CwlWarTags(CwlWarStep(st, our_clan_tag, season, round_num, Head(war_tags),
                               fetched, now),
                    our_clan_tag, season, round_num, Tail(war_tags), fetched, now)

\* "for round_num, round_data in enumerate(rounds, 1)"
RECURSIVE CwlRounds(_, _, _, _, _, _, _)
CwlRounds(st, our_clan_tag, season, round_num, rounds, fetched, now) ==
    IF rounds = <<>> THEN st
    ELSE CwlRounds(CwlWarTags(st, our_clan_tag, season, round_num, Head(rounds).warTags,
                              fetched, now),
                   our_clan_tag, season, round_num + 1, Tail(rounds), fetched, now)

\* sum(p[field] for p in all_player_stats.values())
RECURSIVE SumField(_, _, _)
SumField(f, tags, field) ==
    IF tags = {} THEN 0
    ELSE LET t == CHOOSE x \in tags : TRUE
         IN  f[t][field] + SumField(f, tags \ {t}, field)

\* the loop state of analyze_cwl after "for round_num, round_data in enumerate(rounds, 1)"
CwlLoop(clan_tag, hd, cwl_group, fetched, now) ==
    CwlRounds([hd               |-> hd,
               all_player_stats |-> <<>>,
               wars_analyzed    |-> 0,
               state            |-> cwl_group.state,
               fetched_tags     |-> <<>>],
              clan_tag, cwl_group.season, 1, cwl_group.rounds, fetched, now)

\* analyze_cwl; cwl_group is the result of get_cwl_group, fetched those of get_cwl_war
analyze_cwl(clan_tag, hd, cwl_group, fetched, now) ==
    IF cwl_group = None THEN hd
    ELSE LET season     == cwl_group.season
             season_key == "cwl_" \o season
             st == CwlLoop(clan_tag, hd, cwl_group, fetched, now)
             aps == st.all_player_stats
             season_record ==
                 [season        |-> season,
                  wars_analyzed |-> st.wars_analyzed,
                  total_attacks |-> SumField(aps, DOMAIN aps, "attacks_used"),
                  total_stars   |-> SumField(aps, DOMAIN aps, "total_stars"),
                  recorded_date |-> now,
                  complete      |-> st.state = "ended"]
         IN  IF st.wars_analyzed > 0
             THEN [st.hd EXCEPT !.cwl_seasons =
                      [k \in DOMAIN st.hd.cwl_seasons \cup {season_key} |->
                          IF k = season_key THEN season_record
                          ELSE st.hd.cwl_seasons[k]]]
             ELSE st.hd

(***************************************************************************)
(* FLOATS                                                                  *)
(*                                                                         *)
(* The scorer mixes Python ints and floats.  A nonnegative binary64 value  *)
(* is held exactly as a fixed-point number: six little-endian limbs of 16  *)
(* bits counting units of 2^-64.  Every float operation is the exact       *)
(* operation followed by IEEE-754 rounding to 53 significant bits, ties to *)
(* even, which is what CPython's float arithmetic does.                    *)
(***************************************************************************)
Limb == 2^16

FxZero == <<0, 0, 0, 0, 0, 0>>

RECURSIVE FxCarryFrom(_, _, _)
FxCarryFrom(a, i, c) ==
    IF i > Len(a) THEN a
    ELSE LET v == a[i] + c
         IN FxCarryFrom([a EXCEPT ![i] = v % Limb], i + 1,
                        IF v >= 0 THEN v \div Limb ELSE -((Limb - 1 - v) \div Limb))

FxCarry(a) == FxCarryFrom(a, 1, 0)

FxFromInt(n) == FxCarry([FxZero EXCEPT ![5] = n])

FxAdd(a, b) == FxCarry([i \in 1..Len(a) |-> a[i] + b[i]])

FxSub(a, b) == FxCarry([i \in 1..Len(a) |-> a[i] - b[i]])

FxMulInt(a, k) == FxCarry([i \in 1..Len(a) |-> a[i] * k])

RECURSIVE FxDivFrom(_, _, _, _)
FxDivFrom(a, i, rem, p) ==
    IF i = 0 THEN [q |-> a, rem |-> rem]
    ELSE LET cur == rem * Limb + a[i]
         IN FxDivFrom([a EXCEPT ![i] = cur \div p], i - 1, cur % p, p)

FxDivInt(a, p) == FxDivFrom(a, Len(a), 0, p)

FxBit(a, i) == (a[(i \div 16) + 1] \div 2^(i % 16)) % 2

FxBitLen(a) ==
    IF a = FxZero THEN 0
    ELSE LET top == CHOOSE i \in 1..Len(a) :
                        a[i] # 0 /\ \A j \in (i + 1)..Len(a) : a[j] = 0
             bits == CHOOSE b \in 1..16 : 2^(b - 1) <= a[top] /\ a[top] < 2^b
         IN 16 * (top - 1) + bits

FxLowZero(a, s) ==
    \A j \in 1..Len(a) :
        IF 16 * j <= s THEN a[j] = 0
        ELSE IF 16 * (j - 1) < s THEN a[j] % 2^(s - 16 * (j - 1)) = 0
        ELSE TRUE

FxTruncate(a, s) ==
    [j \in 1..Len(a) |->
        IF 16 * j <= s THEN 0
        ELSE IF 16 * (j - 1) < s THEN a[j] - (a[j] % 2^(s - 16 * (j - 1)))
        ELSE a[j]]

FxPow2(s) == [j \in 1..Len(FxZero) |-> IF j = (s \div 16) + 1 THEN 2^(s % 16) ELSE 0]

\* IEEE-754 round to nearest, ties to even, at 53 significant bits; inexact
\* says that the exact value lies strictly above a.
FxRound(a, inexact) ==
    LET s == FxBitLen(a) - 53
    IN IF s <= 0 THEN a
       ELSE LET up == /\ FxBit(a, s - 1) = 1
                      /\ \/ ~FxLowZero(a, s - 1)
                         \/ inexact
                         \/ FxBit(a, s) = 1
                t == FxTruncate(a, s)
            IN IF up THEN FxAdd(t, FxPow2(s)) ELSE t

FxLE(a, b) ==
    \/ a = b
    \/ \E i \in 1..Len(a) : a[i] < b[i] /\ \A j \in (i + 1)..Len(a) : a[j] = b[j]

FloatAdd(a, b) == FxRound(FxAdd(a, b), FALSE)

FloatSub(a, b) == FxRound(FxSub(a, b), FALSE)

FloatMulInt(k, a) == FxRound(FxMulInt(a, k), FALSE)

\* int / int, and the decimal literals 0.3 and 0.4: the binary64 nearest to c/p
FloatDivInt(c, p) ==
    LET d == FxDivInt(FxFromInt(c), p)
    IN FxRound(d.q, d.rem # 0)

\* round(x, 1), as the number of tenths of the decimal it returns
RoundTenths(x) ==
    LET y == FxMulInt(x, 10)
        whole == y[5] + Limb * y[6]
        up == FxBit(y, 63) = 1 /\ (~FxLowZero(y, 63) \/ whole % 2 = 1)
    IN IF up THEN whole + 1 ELSE whole

(***************************************************************************)
(* RUSH SCORER: REFERENCE TABLES                                           *)
(***************************************************************************)
HERO_MAX_LEVELS ==
    "Barbarian King" :> (7 :> 5 @@ 8 :> 10 @@ 9 :> 30 @@ 10 :> 40 @@ 11 :> 50 @@ 12 :> 65 @@ 13 :> 75 @@ 14 :> 85 @@ 15 :> 90 @@ 16 :> 95 @@ 17 :> 100 @@ 18 :> 105) @@
    "Archer Queen" :> (8 :> 10 @@ 9 :> 30 @@ 10 :> 40 @@ 11 :> 50 @@ 12 :> 65 @@ 13 :> 75 @@ 14 :> 85 @@ 15 :> 90 @@ 16 :> 95 @@ 17 :> 100 @@ 18 :> 105) @@
    "Grand Warden" :> (11 :> 20 @@ 12 :> 40 @@ 13 :> 50 @@ 14 :> 55 @@ 15 :> 65 @@ 16 :> 70 @@ 17 :> 75 @@ 18 :> 80) @@
    "Royal Champion" :> (13 :> 25 @@ 14 :> 30 @@ 15 :> 40 @@ 16 :> 45 @@ 17 :> 50 @@ 18 :> 55) @@
    "Minion Prince" :> (9 :> 10 @@ 10 :> 20 @@ 11 :> 30 @@ 12 :> 40 @@ 13 :> 50 @@ 14 :> 60 @@ 15 :> 70 @@ 16 :> 80 @@ 17 :> 90 @@ 18 :> 95)

TROOP_MAX_LEVELS ==
    "Barbarian" :> (1 :> 1 @@ 2 :> 1 @@ 3 :> 2 @@ 4 :> 2 @@ 5 :> 3 @@ 6 :> 4 @@ 7 :> 4 @@ 8 :> 5 @@ 9 :> 6 @@ 10 :> 7 @@ 11 :> 8 @@ 12 :> 9 @@ 13 :> 10 @@ 14 :> 11 @@ 15 :> 11 @@ 16 :> 12 @@ 17 :> 12) @@
    "Archer" :> (1 :> 1 @@ 2 :> 1 @@ 3 :> 2 @@ 4 :> 2 @@ 5 :> 3 @@ 6 :> 4 @@ 7 :> 4 @@ 8 :> 5 @@ 9 :> 6 @@ 10 :> 7 @@ 11 :> 8 @@ 12 :> 9 @@ 13 :> 10 @@ 14 :> 11 @@ 15 :> 11 @@ 16 :> 12 @@ 17 :> 12) @@
    "Giant" :> (1 :> 1 @@ 2 :> 1 @@ 3 :> 2 @@ 4 :> 2 @@ 5 :> 3 @@ 6 :> 4 @@ 7 :> 5 @@ 8 :> 6 @@ 9 :> 7 @@ 10 :> 8 @@ 11 :> 9 @@ 12 :> 10 @@ 13 :> 10 @@ 14 :> 11 @@ 15 :> 11 @@ 16 :> 12 @@ 17 :> 12) @@
    "Balloon" :> (4 :> 2 @@ 5 :> 3 @@ 6 :> 4 @@ 7 :> 5 @@ 8 :> 6 @@ 9 :> 6 @@ 10 :> 7 @@ 11 :> 8 @@ 12 :> 9 @@ 13 :> 10 @@ 14 :> 10 @@ 15 :> 10 @@ 16 :> 11 @@ 17 :> 11) @@
    "Wizard" :> (5 :> 3 @@ 6 :> 4 @@ 7 :> 4 @@ 8 :> 5 @@ 9 :> 6 @@ 10 :> 7 @@ 11 :> 9 @@ 12 :> 10 @@ 13 :> 10 @@ 14 :> 11 @@ 15 :> 11 @@ 16 :> 12 @@ 17 :> 12) @@
    "Healer" :> (4 :> 1 @@ 5 :> 2 @@ 6 :> 3 @@ 7 :> 3 @@ 8 :> 4 @@ 9 :> 4 @@ 10 :> 5 @@ 11 :> 5 @@ 12 :> 6 @@ 13 :> 7 @@ 14 :> 8 @@ 15 :> 8 @@ 16 :> 9 @@ 17 :> 9) @@
    "Dragon" :> (7 :> 2 @@ 8 :> 3 @@ 9 :> 4 @@ 10 :> 5 @@ 11 :> 6 @@ 12 :> 7 @@ 13 :> 8 @@ 14 :> 9 @@ 15 :> 10 @@ 16 :> 11 @@ 17 :> 12) @@
    "P.E.K.K.A" :> (8 :> 3 @@ 9 :> 4 @@ 10 :> 5 @@ 11 :> 6 @@ 12 :> 7 @@ 13 :> 8 @@ 14 :> 9 @@ 15 :> 10 @@ 16 :> 10 @@ 17 :> 11) @@
    "Golem" :> (8 :> 2 @@ 9 :> 4 @@ 10 :> 5 @@ 11 :> 6 @@ 12 :> 7 @@ 13 :> 9 @@ 14 :> 10 @@ 15 :> 11 @@ 16 :> 12 @@ 17 :> 13) @@
    "Witch" :> (9 :> 2 @@ 10 :> 3 @@ 11 :> 4 @@ 12 :> 5 @@ 13 :> 5 @@ 14 :> 6 @@ 15 :> 6 @@ 16 :> 7 @@ 17 :> 7) @@
    "Lava Hound" :> (9 :> 2 @@ 10 :> 3 @@ 11 :> 4 @@ 12 :> 5 @@ 13 :> 6 @@ 14 :> 6 @@ 15 :> 6 @@ 16 :> 7 @@ 17 :> 7) @@
    "Bowler" :> (10 :> 2 @@ 11 :> 3 @@ 12 :> 4 @@ 13 :> 5 @@ 14 :> 6 @@ 15 :> 6 @@ 16 :> 7 @@ 17 :> 7) @@
    "Miner" :> (10 :> 3 @@ 11 :> 5 @@ 12 :> 6 @@ 13 :> 7 @@ 14 :> 8 @@ 15 :> 8 @@ 16 :> 9 @@ 17 :> 9) @@
    "Electro Dragon" :> (11 :> 2 @@ 12 :> 3 @@ 13 :> 4 @@ 14 :> 5 @@ 15 :> 5 @@ 16 :> 6 @@ 17 :> 6) @@
    "Yeti" :> (12 :> 2 @@ 13 :> 3 @@ 14 :> 4 @@ 15 :> 4 @@ 16 :> 5 @@ 17 :> 5) @@
    "Dragon Rider" :> (14 :> 2 @@ 15 :> 3 @@ 16 :> 3 @@ 17 :> 4) @@
    "Electro Titan" :> (15 :> 2 @@ 16 :> 3 @@ 17 :> 3) @@
    "Root Rider" :> (16 :> 2 @@ 17 :> 3)

SPELL_MAX_LEVELS ==
    "Lightning Spell" :> (5 :> 4 @@ 6 :> 4 @@ 7 :> 4 @@ 8 :> 5 @@ 9 :> 6 @@ 10 :> 7 @@ 11 :> 8 @@ 12 :> 9 @@ 13 :> 9 @@ 14 :> 10 @@ 15 :> 10 @@ 16 :> 11 @@ 17 :> 11) @@
    "Healing Spell" :> (6 :> 3 @@ 7 :> 4 @@ 8 :> 5 @@ 9 :> 6 @@ 10 :> 7 @@ 11 :> 7 @@ 12 :> 8 @@ 13 :> 8 @@ 14 :> 9 @@ 15 :> 9 @@ 16 :> 10 @@ 17 :> 10) @@
    "Rage Spell" :> (7 :> 4 @@ 8 :> 5 @@ 9 :> 5 @@ 10 :> 5 @@ 11 :> 6 @@ 12 :> 6 @@ 13 :> 6 @@ 14 :> 6 @@ 15 :> 6 @@ 16 :> 6 @@ 17 :> 6) @@
    "Jump Spell" :> (9 :> 2 @@ 10 :> 3 @@ 11 :> 3 @@ 12 :> 4 @@ 13 :> 4 @@ 14 :> 5 @@ 15 :> 5 @@ 16 :> 5 @@ 17 :> 5) @@
    "Freeze Spell" :> (9 :> 1 @@ 10 :> 5 @@ 11 :> 6 @@ 12 :> 7 @@ 13 :> 7 @@ 14 :> 7 @@ 15 :> 7 @@ 16 :> 8 @@ 17 :> 8) @@
    "Poison Spell" :> (8 :> 2 @@ 9 :> 3 @@ 10 :> 4 @@ 11 :> 5 @@ 12 :> 6 @@ 13 :> 7 @@ 14 :> 8 @@ 15 :> 9 @@ 16 :> 10 @@ 17 :> 10) @@
    "Earthquake Spell" :> (8 :> 2 @@ 9 :> 3 @@ 10 :> 4 @@ 11 :> 5 @@ 12 :> 5 @@ 13 :> 5 @@ 14 :> 5 @@ 15 :> 5 @@ 16 :> 5 @@ 17 :> 5) @@
    "Haste Spell" :> (9 :> 2 @@ 10 :> 4 @@ 11 :> 5 @@ 12 :> 5 @@ 13 :> 5 @@ 14 :> 5 @@ 15 :> 5 @@ 16 :> 5 @@ 17 :> 5) @@
    "Clone Spell" :> (10 :> 3 @@ 11 :> 5 @@ 12 :> 6 @@ 13 :> 7 @@ 14 :> 7 @@ 15 :> 8 @@ 16 :> 8 @@ 17 :> 8) @@
    "Invisibility Spell" :> (11 :> 2 @@ 12 :> 3 @@ 13 :> 4 @@ 14 :> 4 @@ 15 :> 4 @@ 16 :> 4 @@ 17 :> 4) @@
    "Recall Spell" :> (13 :> 2 @@ 14 :> 3 @@ 15 :> 4 @@ 16 :> 5 @@ 17 :> 5) @@
    "Bat Spell" :> (10 :> 3 @@ 11 :> 4 @@ 12 :> 5 @@ 13 :> 5 @@ 14 :> 5 @@ 15 :> 5 @@ 16 :> 5 @@ 17 :> 5) @@
    "Overgrowth Spell" :> (15 :> 2 @@ 16 :> 3 @@ 17 :> 3)
(***************************************************************************)
(* RUSH SCORER                                                             *)
(*                                                                         *)
(* A player snapshot is [townHallLevel, heroes, troops, spells]; an asset  *)
(* is [name, level, village].  The status strings are the code's without   *)
(* their leading emoji.  rush_percentage is held in tenths (round(_, 1)).  *)
(***************************************************************************)
Level(n) == [level |-> n]

\* levels = TABLE.get(item_name, {}); levels.get(th_level)
LookupLevel_defaultOne(table, item_name, th_level) ==
    IF item_name \in DOMAIN table /\ th_level \in DOMAIN table[item_name]
    THEN Level(table[item_name][th_level])
    ELSE Level(1)

LookupLevel(table, item_name, th_level) ==
    IF item_name \in DOMAIN table /\ th_level \in DOMAIN table[item_name]
    THEN Level(table[item_name][th_level])
    ELSE None

get_max_level_for_th(item_name, th_level, item_type) ==
    IF item_type = "hero" THEN LookupLevel(HERO_MAX_LEVELS, item_name, th_level)
    ELSE IF item_type = "troop" THEN LookupLevel(TROOP_MAX_LEVELS, item_name, th_level)
    ELSE IF item_type = "spell" THEN LookupLevel(SPELL_MAX_LEVELS, item_name, th_level)
    ELSE None

NewAccountReport ==
    [is_rushed |-> FALSE, rush_score |-> FxZero, rush_percentage |-> 0,
     rushed_heroes |-> <<>>, rushed_troops |-> <<>>, rushed_spells |-> <<>>,
     status |-> "New Account"]

IsNewAccount_belowTwo(th_level) == th_level < 2

IsNewAccount(th_level) == th_level <= 2

\* what one loop accumulates: the category's totals, rushed list and score
EmptyCheck(item_type) ==
    [total_possible |-> 0, total_current |-> 0, rushed |-> <<>>,
     score |-> IF item_type = "hero" THEN 0 ELSE FxZero,
     total_missing |-> 0]

\* hero_score += missing; troop_score += missing * 0.3; spell_score += missing * 0.4
AddScore(score, missing_levels, item_type) ==
    IF item_type = "hero" THEN score + missing_levels
    ELSE FloatAdd(score, FloatMulInt(missing_levels,
                                     IF item_type = "troop" THEN FloatDivInt(3, 10)
                                     ELSE FloatDivInt(4, 10)))

MissingLevels_capped(level, target) == IF target - level > 20 THEN 0 ELSE target - level

MissingLevels(level, target) == target - level

IsBelowTarget_orEqual(level, target) == level <= target

IsBelowTarget(level, target) == level < target

AddTotals_fullCredit(acc, item, target) ==
    [acc EXCEPT !.total_possible = @ + target,
                !.total_current = @ + target]

\* total_possible += max_at_prev; total_current += min(level, max_at_prev)
AddTotals(acc, item, target) ==
    [acc EXCEPT !.total_possible = @ + target,
                !.total_current = @ + Min(item.level, target)]

\* the body of "if level < max_at_prev"
AddRushed(acc, item, target, missing_levels, item_type) ==
    [acc EXCEPT
       !.rushed = Append(@, [name |-> item.name, current |-> item.level,
                             target |-> target, missing |-> missing_levels]),
       !.score = AddScore(@, missing_levels, item_type),
       !.total_missing = IF item_type = "hero" THEN @ + missing_levels ELSE @]

\* the body of "if max_at_prev is not None and max_at_prev > 0"
CompareToTarget(acc, item, max_at_prev, item_type) ==
    IF max_at_prev # None /\ max_at_prev.level > 0
    THEN IF IsBelowTarget(item.level, max_at_prev.level)
         THEN AddRushed(AddTotals(acc, item, max_at_prev.level), item, max_at_prev.level,
                        MissingLevels(item.level, max_at_prev.level), item_type)
         ELSE AddTotals(acc, item, max_at_prev.level)
    ELSE acc

IsHomeVillage_any(village) == TRUE

\* only check home village heroes, troops, spells
IsHomeVillage(village) == village = "home"

\* one iteration of the loop over heroes, troops or spells
CheckItem(acc, item, previous_th, item_type) ==
    IF ~IsHomeVillage(item.village) THEN acc
    ELSE CompareToTarget(acc, item,
                         get_max_level_for_th(item.name, previous_th, item_type),
                         item_type)

RECURSIVE CheckItems(_, _, _, _, _)
CheckItems(items, i, previous_th, item_type, acc) ==
    IF i > Len(items) THEN acc
    ELSE CheckItems(items, i + 1, previous_th, item_type,
                    CheckItem(acc, items[i], previous_th, item_type))

\* a rush_score that leaves the hero score out
RushScore_noHeroes(hero_score, troop_score, spell_score) ==
    FloatAdd(troop_score, spell_score)

\* rush_score = hero_score + troop_score + spell_score, left to right
RushScore(hero_score, troop_score, spell_score) ==
    FloatAdd(FloatAdd(FxFromInt(hero_score), troop_score), spell_score)

RushPercentage(total_current, total_possible) ==
    IF total_possible > 0
    THEN RoundTenths(FloatSub(FxFromInt(100),
                              FloatMulInt(100, FloatDivInt(total_current, total_possible))))
    ELSE 0

\* step 4: rush_data once the three loops have run, its status still the initial one
FinalScores(h, t, s) ==
    [is_rushed |-> FALSE,
     rush_score |-> RushScore(h.score, t.score, s.score),
     rush_percentage |-> RushPercentage(h.total_current + t.total_current + s.total_current,
                                        h.total_possible + t.total_possible + s.total_possible),
     rushed_heroes |-> h.rushed,
     rushed_troops |-> t.rushed,
     rushed_spells |-> s.rushed,
     hero_score |-> h.score,
     troop_score |-> t.score,
     spell_score |-> s.score,
     total_missing_hero_levels |-> h.total_missing,
     status |-> "Not Rushed"]

SetStatus(rush_data, status, is_rushed) ==
    [rush_data EXCEPT !.status = status, !.is_rushed = is_rushed]

\* step 5: the score bands
ScoreStatus(rush_data) ==
    IF FxLE(rush_data.rush_score, FxFromInt(3)) THEN SetStatus(rush_data, "Maxed", FALSE)
    ELSE IF FxLE(rush_data.rush_score, FxFromInt(10))
         THEN SetStatus(rush_data, "Slightly Behind", FALSE)
    ELSE IF FxLE(rush_data.rush_score, FxFromInt(25))
         THEN SetStatus(rush_data, "Moderately Rushed", TRUE)
    ELSE IF FxLE(rush_data.rush_score, FxFromInt(50))
         THEN SetStatus(rush_data, "Rushed", TRUE)
    ELSE SetStatus(rush_data, "Severely Rushed", TRUE)

HeroPenalty_atTwenty(rush_data) ==
    IF rush_data.total_missing_hero_levels >= 20
    THEN SetStatus(rush_data, "Severely Rushed (Heroes)", TRUE)
    ELSE rush_data

\* extra penalty for very low heroes
HeroPenalty(rush_data) ==
    IF rush_data.total_missing_hero_levels > 20
    THEN SetStatus(rush_data, "Severely Rushed (Heroes)", TRUE)
    ELSE rush_data

generate_rush_report(p) ==
    IF IsNewAccount(p.townHallLevel) THEN NewAccountReport
    ELSE HeroPenalty(ScoreStatus(FinalScores(
            CheckItems(p.heroes, 1, p.townHallLevel - 1, "hero", EmptyCheck("hero")),
            CheckItems(p.troops, 1, p.townHallLevel - 1, "troop", EmptyCheck("troop")),
            CheckItems(p.spells, 1, p.townHallLevel - 1, "spell", EmptyCheck("spell")))))

(***************************************************************************)
(* INPUTS OF THE ACCUMULATOR                                               *)
(***************************************************************************)
PlayerTags  == {"#P1"}
PlayerNames == {"alice", "bob"}
TownHalls   == {9, 10}
Dates       == {"2025-01-01T10:00:00"}

\* attacks as analyze_war_attacks reports them
AttackSet ==
    { [stars |-> 3, destruction |-> 100, defender_th |-> 9,  defender_pos |-> 1, hit_type |-> "SAME"],
      [stars |-> 2, destruction |-> 80,  defender_th |-> 10, defender_pos |-> 2, hit_type |-> "UP"],
      [stars |-> 0, destruction |-> 20,  defender_th |-> 9,  defender_pos |-> 1, hit_type |-> "DOWN"] }

AttackPayloads == SeqsUpTo(AttackSet, MaxAttacks)

\* one attack for each number of stars the API reports
StarAttackSet ==
    { [stars |-> n, destruction |-> 25 * n + 20, defender_th |-> 10, defender_pos |-> 1,
       hit_type |-> "SAME"] : n \in 0..3 }

StarPayloads == SeqsUpTo(StarAttackSet, MaxAttacks)


\* the wars the harness may name: (war_id, war_type) as main and analyze_cwl pass them
WarContexts ==
    { <<"#2J28LL2VU_#OPP1_20250101T080000.000Z", "regular_war">>,
      <<"cwl_2025-01_round1_#W1", "CWL_2025-01">> }

(***************************************************************************)
(* INPUTS OF MAIN: WHAT THE API RETURNS                                    *)
(***************************************************************************)
\* the opponent's roster of a war
OpponentRoster ==
    << [tag |-> "#D1", name |-> "dora", townhallLevel |-> 10, mapPosition |-> 1,
        attacks |-> <<>>],
       [tag |-> "#D2", name |-> "dave", townhallLevel |-> 11, mapPosition |-> 2,
        attacks |-> <<>>] >>

\* attacks as the API lists them ("#DX" is in no roster)
WarAttackSet ==
    { [defenderTag |-> "#D1", stars |-> 3, destructionPercentage |-> 100],
      [defenderTag |-> "#DX", stars |-> 1, destructionPercentage |-> 45] }

WarAttackLists == SeqsUpTo(WarAttackSet, MaxAttacks)

Member1(attacks) ==
    [tag |-> "#P1", name |-> "alice", townhallLevel |-> 10, mapPosition |-> 1,
     attacks |-> attacks]

Member2(attacks) ==
    [tag |-> "#P2", name |-> "bob", townhallLevel |-> 9, mapPosition |-> 2,
     attacks |-> attacks]

\* our side's rosters of a running war: at most MaxAttacks attacks made in all
WarRosters ==
    {<<>>}
    \cup {<<Member1(a)>> : a \in WarAttackLists}
    \cup {<<Member2(b), Member1(a)>> :
             <<a, b>> \in {x \in WarAttackLists \X WarAttackLists :
                               Len(x[1]) + Len(x[2]) <= MaxAttacks}}

\* rosters of a war in preparation: nobody has attacked
PreparationRosters == {<<>>, <<Member1(<<>>)>>, <<Member2(<<>>), Member1(<<>>)>>}

\* (opponent tag, preparationStartTime) of the two wars our clan fights
WarKeyA == <<"#OPP1", "20250101T080000.000Z">>
WarKeyB == <<"#OPP2", "20250103T080000.000Z">>

War(state, key, members) ==
    [state                |-> state,
     preparationStartTime |-> key[2],
     clan                 |-> [tag |-> CLAN_TAG, members |-> members],
     opponent             |-> [tag |-> key[1], members |-> OpponentRoster]]

\* rosters of the second war: one member, with no attack or a three-star attack
SmallRosters ==
    { <<Member1(<<>>)>>,
      <<Member1(<<[defenderTag |-> "#D1", stars |-> 3, destructionPercentage |-> 100]>>)>> }

NotInWar ==
    [state                |-> "notInWar",
     preparationStartTime |-> "",
     clan                 |-> [tag |-> "", members |-> <<>>],
     opponent             |-> [tag |-> "", members |-> <<>>]]

\* the results of get_current_war
CurrentWars ==
    {None, NotInWar}
    \cup {War("preparation", WarKeyA, r) : r \in PreparationRosters}
    \cup {War(st, WarKeyA, r) : st \in {"inWar", "warEnded"}, r \in WarRosters}
    \cup {War("preparation", WarKeyB, <<Member1(<<>>)>>)}
    \cup {War(st, WarKeyB, r) : st \in {"inWar", "warEnded"}, r \in SmallRosters}

\* what the Extractor is given: wars whose members made up to MaxAttacks attacks
\* each, on a listed defender of a higher, equal or unlisted town hall
ExtractorAttackSet ==
    WarAttackSet
    \cup { [defenderTag |-> "#D2", stars |-> 2, destructionPercentage |-> 80],
           [defenderTag |-> "#D2", stars |-> 0, destructionPercentage |-> 10] }

ExtractorAttackLists == SeqsUpTo(ExtractorAttackSet, MaxAttacks)

ExtractorRosters ==
    {<<>>}
    \cup {<<Member1(a)>> : a \in ExtractorAttackLists}
    \cup {<<Member2(b), Member1(a)>> : a \in ExtractorAttackLists, b \in ExtractorAttackLists}

ExtractorWars == {War("inWar", WarKeyA, r) : r \in ExtractorRosters}

CwlSeason == "2025-01"

\* a league war of our clan: ours is the 'clan' side or the 'opponent' side
CwlWar(state, ours_first, members) ==
    LET us   == [tag |-> CLAN_TAG, members |-> members]
        them == [tag |-> "#OPP3", members |-> OpponentRoster]
    IN  [state    |-> state,
         clan     |-> IF ours_first THEN us ELSE them,
         opponent |-> IF ours_first THEN them ELSE us]

\* a league war between two other clans
ForeignCwlWar ==
    [state    |-> "inWar",
     clan     |-> [tag |-> "#OPP3", members |-> OpponentRoster],
     opponent |-> [tag |-> "#OPP4", members |-> <<Member2(<<>>)>>]]

\* a member has one attack in a league war
CwlRosters ==
    { <<Member1(<<>>)>>,
      <<Member1(<<[defenderTag |-> "#D2", stars |-> 2, destructionPercentage |-> 70]>>)>> }

\* the results of get_cwl_war for our war
CwlOurWars ==
    {None}
    \cup {CwlWar("preparation", f, <<Member1(<<>>)>>) : f \in BOOLEAN}
    \cup {CwlWar(st, f, r) : st \in {"inWar", "warEnded"}, f \in BOOLEAN, r \in CwlRosters}

\* the results of get_cwl_war, by war tag
CwlFetches ==
    { [t \in {"#W1", "#W2"} |-> IF t = "#W1" THEN w1 ELSE ForeignCwlWar] :
      w1 \in CwlOurWars }

\* the results of get_cwl_group: round 1 is scheduled, round 2 is not yet
CwlGroups ==
    {None}
    \cup { [state  |-> st,
            season |-> CwlSeason,
            rounds |-> << [warTags |-> <<"#W2", "#W1">>], [warTags |-> <<"#0", "#0">>] >>] :
           st \in {"inWar", "ended"} }

(***************************************************************************)
(* INPUTS OF THE RUSH SCORER: PLAYER SNAPSHOTS AS THE API RETURNS THEM     *)
(***************************************************************************)
Tiers == {2, 3, 10, 11}

Asset(name, level, village) == [name |-> name, level |-> level, village |-> village]

\* Grand Warden has no target below tier 11; Battle Machine is a builder-base hero
HeroCatalog ==
    {Asset("Barbarian King", l, "home") : l \in {9, 10, 30, 40}}
        \cup {Asset("Grand Warden", 5, "home"), Asset("Battle Machine", 5, "builderBase")}

\* Super Barbarian is not in TROOP_MAX_LEVELS; the builder-base Archer carries a
\* name that TROOP_MAX_LEVELS lists
TroopCatalog ==
    {Asset("Barbarian", l, "home") : l \in {5, 7}}
        \cup {Asset("Super Barbarian", 1, "home"), Asset("Archer", 3, "builderBase")}

SpellCatalog ==
    {Asset("Lightning Spell", l, "home") : l \in {1, 7}}
        \cup {Asset("Healing Spell", 3, "home")}

LevelChoices == {a.level : a \in HeroCatalog \cup TroopCatalog \cup SpellCatalog}

Categories == {"heroes", "troops", "spells"}

\* the API lists an asset once
DistinctNames(items) ==
    \A i, j \in 1..Len(items) : items[i].name = items[j].name => i = j

AssetLists(catalog, n) == {items \in [1..n -> catalog] : DistinctNames(items)}

RemoveAt(items, i) == [k \in 1..(Len(items) - 1) |-> IF k < i THEN items[k] ELSE items[k + 1]]

(***************************************************************************)
(* ACTIONS ON THE STORE                                                    *)
(***************************************************************************)
InitStore ==
    /\ historical_data = create_empty_data_structure
    /\ last = [op |-> "start"]
    /\ disk = NoFile
    /\ pc = "idle"

\* one call of update_player_historical_stats
UpdateCall(player_tag, player_name, th_level, attacks, ctx, now) ==
    LET war_id   == ctx[1]
        war_type == ctx[2]
        hd2 == update_player_historical_stats(historical_data, player_tag, player_name,
                   th_level, [attacks |-> attacks], war_type, war_id, now)
    IN  /\ StoreHistorySize(hd2) <= MaxHistory
        /\ historical_data' = hd2
        /\ last' = [op          |-> "update",
                    player_tag  |-> player_tag,
                    player_name |-> player_name,
                    th_level    |-> th_level,
                    war_id      |-> war_id,
                    seen        |-> player_tag \in DOMAIN historical_data.players,
                    recorded    |-> IF player_tag \in DOMAIN historical_data.players
                                    THEN ~WarAlreadyRecorded(historical_data.players[player_tag], war_id)
                                    ELSE TRUE]
        /\ UNCHANGED <<mainVars, rushVars, warVars, runVars>>

(***************************************************************************)
(* MAIN, STEP BY STEP                                                      *)
(***************************************************************************)
\* historical_data = load_historical_data()
MainLoad ==
    /\ pc = "idle"
    /\ historical_data' = load_historical_data(disk)
    /\ last' = [op |-> "load"]
    /\ pc' = "loaded"
    /\ UNCHANGED <<disk, rushVars, warVars, runVars>>

\* "Get current war and save attack data"; current_war is what get_current_war returns
MainCurrentWar(current_war, now) ==
    LET hd2 == RecordCurrentWar(historical_data, current_war, now)
    IN  /\ pc = "loaded"
        /\ StoreHistorySize(hd2) <= MaxHistory
        /\ historical_data' = hd2
        /\ last' = IF current_war = None
                   THEN [op |-> "current_war", state |-> "absent"]
                   ELSE [op                   |-> "current_war",
                         state                |-> current_war.state,
                         clan_tag             |-> current_war.clan.tag,
                         opponent_tag         |-> current_war.opponent.tag,
                         preparationStartTime |-> current_war.preparationStartTime]
        /\ pc' = "war_done"
        /\ UNCHANGED <<disk, rushVars, warVars, runVars>>

\* historical_data = analyze_cwl(CLAN_TAG, historical_data)
MainCwl(cwl_group, fetched, now) ==
    LET hd2 == analyze_cwl(CLAN_TAG, historical_data, cwl_group, fetched, now)
    IN  /\ pc = "war_done"
        /\ StoreHistorySize(hd2) <= MaxHistory
        /\ historical_data' = hd2
        /\ last' = IF cwl_group = None
                   THEN [op |-> "cwl", state |-> "absent"]
                   ELSE [op |-> "cwl", state |-> cwl_group.state,
                         season |-> cwl_group.season]
        /\ pc' = "cwl_done"
        /\ UNCHANGED <<disk, rushVars, warVars, runVars>>

\* historical_data["last_updated"] = now; save_historical_data(historical_data)
MainSave(now) ==
    /\ pc = "cwl_done"
    /\ historical_data' = [historical_data EXCEPT !.last_updated = Timestamp(now)]
    /\ disk' = save_historical_data(historical_data')
    /\ last' = [op |-> "save"]
    /\ pc' = "idle"
    /\ UNCHANGED <<rushVars, warVars, runVars>>

(***************************************************************************)
(* CALLS OF THE RUSH SCORER                                                *)
(*                                                                         *)
(* report is generate_rush_report(player).  player2 is player with one     *)
(* asset at a lower level or with one asset removed, report2 its report,   *)
(* and rel says which of the two and which asset.                          *)
(***************************************************************************)
NoRelation == [kind |-> "none"]

InitRush ==
    /\ player = None
    /\ report = None
    /\ player2 = None
    /\ report2 = None
    /\ rel = NoRelation

InitPlayers ==
    /\ \E th \in Tiers, nh \in 0..MaxAssets :
         \E nt \in 0..(MaxAssets - nh) :
           \E ns \in 0..(MaxAssets - nh - nt) :
             \E heroes \in AssetLists(HeroCatalog, nh),
                troops \in AssetLists(TroopCatalog, nt),
                spells \in AssetLists(SpellCatalog, ns) :
                 player = [townHallLevel |-> th, heroes |-> heroes,
                           troops |-> troops, spells |-> spells]
    /\ report = None
    /\ player2 = None
    /\ report2 = None
    /\ rel = NoRelation

ScoreCall ==
    /\ report = None
    /\ report' = generate_rush_report(player)
    /\ UNCHANGED <<player, player2, report2, rel, accVars, mainVars, warVars, runVars>>

DegradeCall(category, i, level) ==
    /\ report # None
    /\ rel = NoRelation
    /\ i \in 1..Len(player[category])
    /\ level < player[category][i].level
    /\ player2' = [player EXCEPT ![category][i].level = level]
    /\ report2' = generate_rush_report(player2')
    /\ rel' = [kind |-> "degraded", category |-> category, index |-> i]
    /\ UNCHANGED <<player, report, accVars, mainVars, warVars, runVars>>

DropCall(category, i) ==
    /\ report # None
    /\ rel = NoRelation
    /\ i \in 1..Len(player[category])
    /\ player2' = [player EXCEPT ![category] = RemoveAt(@, i)]
    /\ report2' = generate_rush_report(player2')
    /\ rel' = [kind |-> "dropped", category |-> category, index |-> i]
    /\ UNCHANGED <<player, report, accVars, mainVars, warVars, runVars>>

\* main has not started: calls lists the calls made so far, absent the
\* optional fetches that returned nothing, before is DATA_FILE at the start
NoRun ==
    [calls   |-> <<>>,
     clan    |-> "pending",
     members |-> "pending",
     roster  |-> 0,
     players |-> 0,
     absent  |-> {},
     before  |-> NoFile]

InitWar ==
    /\ war_input = None
    /\ war_output = None

InitRun == run = NoRun

Init == InitStore /\ InitRush /\ InitWar /\ InitRun

Next ==
    \E player_tag \in PlayerTags, player_name \in PlayerNames, th_level \in TownHalls,
       attacks \in AttackPayloads, ctx \in WarContexts, now \in Dates :
        UpdateCall(player_tag, player_name, th_level, attacks, ctx, now)

Spec == Init /\ [][Next]_vars

\* calls of update_player_historical_stats with attacks of every number of
\* stars: a player in two wars, and a second player with one league attack
NextBuckets ==
    \/ \E attacks \in StarPayloads, ctx \in WarContexts, now \in Dates :
          UpdateCall("#P1", "alice", 10, attacks, ctx, now)
    \/ \E attack \in StarAttackSet, now \in Dates :
          UpdateCall("#P2", "bob", 9, <<attack>>,
                     <<"cwl_2025-01_round1_#W1", "CWL_2025-01">>, now)

SpecBuckets == Init /\ [][NextBuckets]_vars

NextMain ==
    \/ MainLoad
    \/ \E current_war \in CurrentWars, now \in Dates : MainCurrentWar(current_war, now)
    \/ \E cwl_group \in CwlGroups, fetched \in CwlFetches, now \in Dates :
          MainCwl(cwl_group, fetched, now)
    \/ \E now \in Dates : MainSave(now)

SpecMain == Init /\ [][NextMain]_vars

\* one call of analyze_cwl on the store as it is; last keeps what the call was
\* given and what its loop did
CwlCall(cwl_group, fetched, now) ==
    LET hd2 == analyze_cwl(CLAN_TAG, historical_data, cwl_group, fetched, now)
    IN  /\ StoreHistorySize(hd2) <= MaxHistory
        /\ historical_data' = hd2
        /\ last' = IF cwl_group = None
                   THEN [op |-> "analyze_cwl", cwl_group |-> None,
                         before |-> historical_data]
                   ELSE LET st == CwlLoop(CLAN_TAG, historical_data, cwl_group, fetched, now)
                        IN  [op               |-> "analyze_cwl",
                             cwl_group        |-> cwl_group,
                             war              |-> fetched["#W1"],
                             before           |-> historical_data,
                             fetched_tags     |-> st.fetched_tags,
                             wars_analyzed    |-> st.wars_analyzed,
                             all_player_stats |-> st.all_player_stats]
        /\ UNCHANGED <<mainVars, rushVars, warVars, runVars>>

\* analyze_cwl run after run on the store the last run left
NextCwl ==
    \E cwl_group \in CwlGroups, fetched \in CwlFetches, now \in Dates :
        CwlCall(cwl_group, fetched, now)

SpecCwl == Init /\ [][NextCwl]_vars

\* one call of analyze_war_attacks
ExtractCall ==
    /\ war_output = None
    /\ war_output' = [stats |-> analyze_war_attacks(war_input)]
    /\ UNCHANGED <<war_input, accVars, mainVars, rushVars, runVars>>

InitExtractor ==
    /\ InitStore /\ InitRush /\ InitRun
    /\ war_input \in ExtractorWars
    /\ war_output = None

NextExtractor == ExtractCall

SpecExtractor == InitExtractor /\ [][NextExtractor]_vars

InitRushScorer == InitStore /\ InitPlayers /\ InitWar /\ InitRun

NextRush ==
    \/ ScoreCall
    \/ \E category \in Categories, i \in 1..MaxAssets, level \in LevelChoices :
          DegradeCall(category, i, level)
    \/ \E category \in Categories, i \in 1..MaxAssets : DropCall(category, i)

SpecRush == InitRushScorer /\ [][NextRush]_vars

(***************************************************************************)
(* ONE RUN OF MAIN, FROM THE LOAD TO THE EXPORTS                           *)
(*                                                                         *)
(* pc names the step main takes next.  Every fetch is an input of its      *)
(* step: None when api_request returned None.  The write of DATA_FILE is   *)
(* three steps, because the file changes at open(), possibly when the      *)
(* buffer is flushed, and when the file is closed.                         *)
(***************************************************************************)
\* "if not clan: return", "if not members: return", "if not players_data: return"
Mandatory_optional(fetched, next) == next
Mandatory(fetched, next) == IF fetched THEN next ELSE "aborted"

\* a fetch whose result main passes on without a test, or tests to skip a block
Optional_mandatory(fetched, next) == IF fetched THEN next ELSE "aborted"
Optional(fetched, next) == next

\* the name of an optional fetch that returned nothing
Absent(name, result) == IF result = None THEN {name} ELSE {}

\* a document an earlier run saved: without history, and with one recorded attack
StoredFiles ==
    { save_historical_data(
          [RecordCurrentWar(create_empty_data_structure, w, "2024-12-31T10:00:00")
              EXCEPT !.last_updated = Timestamp("2024-12-31T10:00:00")]) :
      w \in {None} \cup {War("warEnded", WarKeyB, r) : r \in SmallRosters} }

\* DATA_FILE when main starts
Files == {NoFile} \cup {CorruptFile(k) : k \in CorruptKinds} \cup StoredFiles

\* the results of get_clan_info
ClanInfos == {None, [tag |-> CLAN_TAG, name |-> "clan"]}

\* the results of get_clan_members
MemberLists == {None} \cup {[items |-> s] : s \in {<<>>, <<"#P1">>, <<"#P1", "#P2">>}}

\* the results of get_clan_warlog, get_capital_raid_seasons and get_gold_pass_season
Warlogs == {None, [items |-> <<>>], [items |-> <<[result |-> "win"]>>]}
CapitalRaids == {None, [items |-> <<[state |-> "ended"]>>]}
GoldPasses == {None, [startTime |-> "20250101T080000.000Z"]}

\* main is about to start on some DATA_FILE
InitMainRun ==
    /\ InitRush /\ InitWar
    /\ disk \in Files
    /\ historical_data = None
    /\ last = [op |-> "start"]
    /\ pc = "start"
    /\ run = [NoRun EXCEPT !.before = disk]

Called(name) == [run EXCEPT !.calls = Append(@, name)]

\* historical_data = load_historical_data()
RunLoad ==
    LET loaded == load_historical_data(disk)
    IN  /\ pc = "start"
        /\ IF loaded = Raised("UnicodeDecodeError")
           THEN pc' = "raised" /\ UNCHANGED historical_data
           ELSE pc' = "clan" /\ historical_data' = loaded
        /\ run' = Called("load_historical_data")
        /\ UNCHANGED <<disk, last, rushVars, warVars>>

\* clan = get_clan_info(CLAN_TAG); if not clan: return
RunClan(clan) ==
    /\ pc = "clan"
    /\ pc' = Mandatory(clan # None, "members")
    /\ run' = [run EXCEPT !.clan = IF clan = None THEN "absent" ELSE "present"]
    /\ UNCHANGED <<historical_data, disk, last, rushVars, warVars>>

\* members = get_clan_members(CLAN_TAG); if not members: return
RunMembers(members) ==
    /\ pc = "members"
    /\ pc' = Mandatory(members # None /\ members.items # <<>>, "players")
    /\ run' = [run EXCEPT !.members = IF members = None THEN "absent"
                                      ELSE IF members.items = <<>> THEN "empty"
                                      ELSE "present",
                          !.roster = IF members = None THEN 0 ELSE Len(members.items)]
    /\ UNCHANGED <<historical_data, disk, last, rushVars, warVars>>

\* the loop of get_player_info, which fetched of the members' snapshots arrive;
\* if not players_data: return; then the analyses that only print
RunPlayers(fetched) ==
    /\ pc = "players"
    /\ fetched \in 0..run.roster
    /\ pc' = Mandatory(fetched > 0, "warlog")
    /\ run' = [run EXCEPT !.players = fetched]
    /\ UNCHANGED <<historical_data, disk, last, rushVars, warVars>>

\* warlog = get_clan_warlog(CLAN_TAG); analyze_warlog(warlog)
RunWarlog(warlog) ==
    /\ pc = "warlog"
    /\ pc' = Optional(warlog # None, "current_war")
    /\ run' = [run EXCEPT !.absent = @ \cup Absent("warlog", warlog)]
    /\ UNCHANGED <<historical_data, disk, last, rushVars, warVars>>

\* "Get current war and save attack data"
RunCurrentWar(current_war, now) ==
    LET hd2 == RecordCurrentWar(historical_data, current_war, now)
    IN  /\ pc = "current_war"
        /\ StoreHistorySize(hd2) <= MaxHistory
        /\ pc' = Optional(current_war # None, "cwl")
        /\ historical_data' = hd2
        /\ run' = [Called("current_war") EXCEPT
                      !.absent = @ \cup Absent("current_war", current_war)]
        /\ UNCHANGED <<disk, last, rushVars, warVars>>

\* cwl_group = get_cwl_group(CLAN_TAG), which only the export reads;
\* historical_data = analyze_cwl(CLAN_TAG, historical_data)
RunCwl(cwl_group, fetched, now) ==
    LET hd2 == analyze_cwl(CLAN_TAG, historical_data, cwl_group, fetched, now)
    IN  /\ pc = "cwl"
        /\ StoreHistorySize(hd2) <= MaxHistory
        /\ pc' = Optional(cwl_group # None, "extras")
        /\ historical_data' = hd2
        /\ run' = [Called("analyze_cwl") EXCEPT
                      !.absent = @ \cup Absent("cwl_group", cwl_group)
                                   \cup (IF cwl_group = None THEN {}
                                         ELSE Absent("cwl_war", fetched["#W1"]))]
        /\ UNCHANGED <<disk, last, rushVars, warVars>>

\* capital_raids = get_capital_raid_seasons(CLAN_TAG); gold_pass = get_gold_pass_season();
\* print_historical_summary(historical_data)
RunExtras(capital_raids, gold_pass) ==
    /\ pc = "extras"
    /\ pc' = Optional(capital_raids # None, Optional(gold_pass # None, "save"))
    /\ run' = [run EXCEPT !.absent = @ \cup Absent("capital_raids", capital_raids)
                                       \cup Absent("gold_pass", gold_pass)]
    /\ UNCHANGED <<historical_data, disk, last, rushVars, warVars>>

\* historical_data["last_updated"] = now; save_historical_data opens DATA_FILE with 'w'
RunSaveOpen(now) ==
    /\ pc = "save"
    /\ pc' = "dump"
    /\ historical_data' = [historical_data EXCEPT !.last_updated = Timestamp(now)]
    /\ disk' = open_for_writing
    /\ run' = Called("save_historical_data")
    /\ UNCHANGED <<last, rushVars, warVars>>

\* json.dump fills the buffer before it is done
RunSaveFlush ==
    /\ pc = "dump"
    /\ disk = open_for_writing
    /\ disk' = flushed_buffer
    /\ UNCHANGED <<historical_data, pc, run, last, rushVars, warVars>>

\* json.dump is done and the with block closes the file
RunSaveClose ==
    /\ pc = "dump"
    /\ disk' = save_historical_data(historical_data)
    /\ pc' = "html"
    /\ UNCHANGED <<historical_data, run, last, rushVars, warVars>>

\* generate_html_dashboard(clan, players_data, rush_reports, historical_data)
RunHtml ==
    /\ pc = "html"
    /\ pc' = "export"
    /\ run' = Called("generate_html_dashboard")
    /\ UNCHANGED <<historical_data, disk, last, rushVars, warVars>>

\* export_dashboard_data(...)
RunExport ==
    /\ pc = "export"
    /\ pc' = "done"
    /\ run' = Called("export_dashboard_data")
    /\ UNCHANGED <<historical_data, disk, last, rushVars, warVars>>

NextRun ==
    \/ RunLoad
    \/ \E clan \in ClanInfos : RunClan(clan)
    \/ \E members \in MemberLists : RunMembers(members)
    \/ \E fetched \in 0..2 : RunPlayers(fetched)
    \/ \E warlog \in Warlogs : RunWarlog(warlog)
    \/ \E current_war \in CurrentWars, now \in Dates : RunCurrentWar(current_war, now)
    \/ \E cwl_group \in CwlGroups, fetched \in CwlFetches, now \in Dates :
          RunCwl(cwl_group, fetched, now)
    \/ \E capital_raids \in CapitalRaids, gold_pass \in GoldPasses :
          RunExtras(capital_raids, gold_pass)
    \/ \E now \in Dates : RunSaveOpen(now)
    \/ RunSaveFlush
    \/ RunSaveClose
    \/ RunHtml
    \/ RunExport

SpecRun == InitMainRun /\ [][NextRun]_vars

\* main is a sequential program: a step that can be taken is taken; every
\* step moves pc or rewrites DATA_FILE
SpecRunFair == SpecRun /\ WF_mainVars(NextRun)

\* the process dies before main returns
Crash ==
    /\ pc \notin {"done", "aborted", "raised", "crashed"}
    /\ pc' = "crashed"
    /\ UNCHANGED <<historical_data, disk, run, last, rushVars, warVars>>

NextCrash == NextRun \/ Crash

SpecCrash == InitMainRun /\ [][NextCrash]_vars


(***************************************************************************)
(* PROPERTIES OF THE ACCUMULATOR                                           *)
(***************************************************************************)
\* the fields of a Historical Player Record that count recorded wars and attacks
Counters(p) ==
    <<p.total_attacks, p.total_stars, p.total_destruction, p.three_stars, p.two_stars,
      p.one_star, p.zero_stars, p.wars_participated, p.war_ids, p.attacks_history>>

\* the record the call starts from: the stored one, or the zero record of an unseen tag
RecordBefore(hd, player_tag, player_name, th_level) ==
    IF player_tag \in DOMAIN hd.players
    THEN hd.players[player_tag]
    ELSE NewPlayerRecord(player_tag, player_name, th_level)

\* stars and destruction of a payload, in order
StarsOf(attacks) == [i \in 1..Len(attacks) |-> attacks[i].stars]
DestructionOf(attacks) == [i \in 1..Len(attacks) |-> attacks[i].destruction]

\* C1: a call of update_player_historical_stats whose war_id is already in the
\* player's war_ids changes none of total_attacks, total_stars, total_destruction,
\* the four star buckets, wars_participated, war_ids and attacks_history, whatever
\* attack payload it carries.
C1_DuplicateWarChangesNothing ==
    [][ ( /\ last'.op = "update"
          /\ last'.player_tag \in DOMAIN historical_data.players
          /\ InSeq(last'.war_id, historical_data.players[last'.player_tag].war_ids) )
        => Counters(historical_data'.players[last'.player_tag])
             = Counters(historical_data.players[last'.player_tag]) ]_vars

\* a call for an already recorded war has been made on a record that holds attacks
C1_Witness ==
    /\ last.op = "update"
    /\ last.seen
    /\ ~last.recorded
    /\ historical_data.players[last.player_tag].total_attacks > 0

\* C2: for every store the program reaches and every call with a war_id not yet in
\* the player's war_ids (an unseen player starting from the zero record), the call
\* appends war_id to war_ids, adds 1 to wars_participated, adds the number of attacks
\* to total_attacks, the sums of their stars and destruction to total_stars and
\* total_destruction, and appends one detail record per attack to attacks_history,
\* also when the attack list is empty.
C2_NewWarIsRecorded ==
    \A player_tag \in PlayerTags, player_name \in PlayerNames, th_level \in TownHalls,
       attacks \in AttackPayloads, ctx \in WarContexts, now \in Dates :
        LET before == RecordBefore(historical_data, player_tag, player_name, th_level)
            after  == update_player_historical_stats(historical_data, player_tag,
                          player_name, th_level, [attacks |-> attacks], ctx[2], ctx[1],
                          now).players[player_tag]
            n      == Len(before.attacks_history)
        IN  ~InSeq(ctx[1], before.war_ids) =>
              /\ after.war_ids = Append(before.war_ids, ctx[1])
              /\ after.wars_participated = before.wars_participated + 1
              /\ after.total_attacks = before.total_attacks + Len(attacks)
              /\ after.total_stars = before.total_stars + SumSeq(StarsOf(attacks))
              /\ after.total_destruction
                   = before.total_destruction + SumSeq(DestructionOf(attacks))
              /\ Len(after.attacks_history) = n + Len(attacks)
              /\ SubSeq(after.attacks_history, 1, n) = before.attacks_history
              /\ \A i \in 1..Len(attacks) :
                    /\ after.attacks_history[n + i].war_id = ctx[1]
                    /\ after.attacks_history[n + i].stars = attacks[i].stars
                    /\ after.attacks_history[n + i].destruction = attacks[i].destruction

\* a war with an empty attack list was recorded after a war with attacks
C2_Witness ==
    /\ last.op = "update"
    /\ last.recorded
    /\ LET p == historical_data.players[last.player_tag]
       IN  /\ p.wars_participated = 2
           /\ p.total_attacks = 2
           /\ p.total_stars = 5
           /\ \A i \in 1..Len(p.attacks_history) :
                 p.attacks_history[i].war_id # last.war_id

\* C3: after every call, one for a recorded war included, the record's name is the
\* call's player_name and current_th is the maximum of the previous current_th and
\* the call's tier; a player's current_th never decreases.
C3_NameAndTierRefreshed ==
    [][ last'.op = "update" =>
          LET t == last'.player_tag
              q == historical_data'.players[t]
          IN  /\ q.name = last'.player_name
              /\ q.current_th =
                    IF t \in DOMAIN historical_data.players
                    THEN Max(historical_data.players[t].current_th, last'.th_level)
                    ELSE last'.th_level
              /\ \A u \in DOMAIN historical_data.players :
                    historical_data'.players[u].current_th
                      >= historical_data.players[u].current_th ]_vars

\* a call for a recorded war, with a new name and a lower tier, has been made
C3_Witness ==
    /\ last.op = "update"
    /\ last.seen
    /\ ~last.recorded
    /\ last.player_name = "bob"
    /\ historical_data.players[last.player_tag].name = "bob"
    /\ last.th_level < historical_data.players[last.player_tag].current_th


(***************************************************************************)
(* PROPERTIES OF THE WAR IDENTIFIERS                                       *)
(***************************************************************************)
\* the IDs generate_war_id gives the war records that carry the given clan tag,
\* opponent tag and preparationStartTime, whatever their state, roster and attacks
IdsOfWar(clan_tag, opponent_tag, prep_time) ==
    { generate_war_id(w) :
        w \in { x \in CurrentWars \ {None} :
                  /\ x.clan.tag = clan_tag
                  /\ x.opponent.tag = opponent_tag
                  /\ x.preparationStartTime = prep_time } }

\* the same, worked out once for every war the API can return
WarKeys ==
    {<<w.clan.tag, w.opponent.tag, w.preparationStartTime>> : w \in CurrentWars \ {None}}

IdsOfWarByKey == [k \in WarKeys |-> IdsOfWar(k[1], k[2], k[3])]

\* the attack records of a war in a player's history
RecordsOfWar(p, war_id) ==
    {i \in 1..Len(p.attacks_history) : p.attacks_history[i].war_id = war_id}

\* C4: the war ID depends on the clan tag, the opponent tag and the
\* preparationStartTime only (all records of one war get one ID, whatever their
\* state and attacks), and the CWL ID on season, round number and war tag only, so a
\* war met again in a later fetch is not recorded twice: when main records the
\* current war, every player who already holds an ID of that war keeps all counters;
\* when analyze_cwl runs, every league-war ID a player already holds stays once in
\* war_ids and keeps its attack records.
C4_WarIdDeterministicAndDeduplicated ==
    [][ /\ (last'.op = "current_war" /\ last'.state \notin {"absent", "notInWar"}) =>
            LET ids == IdsOfWarByKey[<<last'.clan_tag, last'.opponent_tag,
                                       last'.preparationStartTime>>]
            IN  /\ Cardinality(ids) = 1
                /\ \A t \in DOMAIN historical_data.players :
                      (\E id \in ids : InSeq(id, historical_data.players[t].war_ids))
                      => Counters(historical_data'.players[t])
                           = Counters(historical_data.players[t])
        /\ (last'.op = "cwl" /\ last'.state # "absent") =>
            \A t \in DOMAIN historical_data.players :
              \A round_num \in 1..2, war_tag \in {"#W1", "#W2"} :
                LET id == CwlWarId(last'.season, round_num, war_tag)
                    p  == historical_data.players[t]
                    q  == historical_data'.players[t]
                IN  InSeq(id, p.war_ids) =>
                      /\ Cardinality({i \in 1..Len(q.war_ids) : q.war_ids[i] = id}) = 1
                      /\ RecordsOfWar(q, id) = RecordsOfWar(p, id)
      ]_vars

\* a later run has met, ended, the war whose first attack an earlier run saved
C4_Witness ==
    /\ disk # NoFile
    /\ "#P1" \in DOMAIN disk.players
    /\ last.op = "current_war"
    /\ last.state = "warEnded"
    /\ last.opponent_tag = "#OPP1"
    /\ disk.players["#P1"].total_attacks = 1
    /\ InSeq(generate_war_id(War("inWar", WarKeyA, <<>>)), disk.players["#P1"].war_ids)
    /\ historical_data.players["#P1"].total_attacks = 1

(***************************************************************************)
(* PROPERTIES OF THE RUSH SCORER                                           *)
(*                                                                         *)
(* The properties read the reference tables themselves: which assets have  *)
(* a target at the reference tier and how many levels they miss is worked  *)
(* out here from the snapshot, not taken from the report.                  *)
(***************************************************************************)
ReferenceTable(category) ==
    IF category = "heroes" THEN HERO_MAX_LEVELS
    ELSE IF category = "troops" THEN TROOP_MAX_LEVELS
    ELSE SPELL_MAX_LEVELS

HasTarget(category, item, tier) ==
    /\ item.name \in DOMAIN ReferenceTable(category)
    /\ (tier - 1) \in DOMAIN ReferenceTable(category)[item.name]

TargetOf(category, item, tier) == ReferenceTable(category)[item.name][tier - 1]

Scored(category, item, tier) == item.village = "home" /\ HasTarget(category, item, tier)

Gap(category, item, tier) ==
    IF Scored(category, item, tier) /\ item.level < TargetOf(category, item, tier)
    THEN TargetOf(category, item, tier) - item.level
    ELSE 0

MissingIn(p, category) ==
    SumSeq([i \in 1..Len(p[category]) |-> Gap(category, p[category][i], p.townHallLevel)])

AllAtTarget(p) ==
    \A category \in Categories : \A i \in 1..Len(p[category]) :
        Scored(category, p[category][i], p.townHallLevel)
            => p[category][i].level >= TargetOf(category, p[category][i], p.townHallLevel)

\* C5: for every player snapshot with tier <= 2, whatever assets it lists,
\* the report is is_rushed = false, rush_score = 0, rush_percentage = 0,
\* empty deficit lists and status "New Account".
C5_NewAccountBelowTierThree ==
    (report # None /\ player.townHallLevel <= 2) =>
        /\ report.is_rushed = FALSE
        /\ report.rush_score = FxFromInt(0)
        /\ report.rush_percentage = 0
        /\ report.rushed_heroes = <<>>
        /\ report.rushed_troops = <<>>
        /\ report.rushed_spells = <<>>
        /\ report.status = "New Account"

\* a scored tier-2 snapshot that lists a hero, a troop and a spell
C5_Witness ==
    /\ report # None
    /\ player.townHallLevel = 2
    /\ Len(player.heroes) > 0 /\ Len(player.troops) > 0 /\ Len(player.spells) > 0
    /\ report.status = "New Account"

\* C6: for every player with tier >= 3 in which each home-village hero, troop
\* and spell that has a reference-tier target is at a level >= that target,
\* the report has rush_score = 0, no deficit entries and status Maxed.
C6_AllAtTargetIsMaxed ==
    (report # None /\ player.townHallLevel >= 3 /\ AllAtTarget(player)) =>
        /\ report.rush_score = FxFromInt(0)
        /\ report.rushed_heroes = <<>>
        /\ report.rushed_troops = <<>>
        /\ report.rushed_spells = <<>>
        /\ report.status = "Maxed"

\* tier 10 with Barbarian King 30 (exactly the tier-9 target) and a troop
\* with a target, everything at or above target
C6_Witness ==
    /\ report # None
    /\ player.townHallLevel = 10
    /\ InSeq(Asset("Barbarian King", 30, "home"), player.heroes)
    /\ \E i \in 1..Len(player.troops) : Scored("troops", player.troops[i], 10)
    /\ AllAtTarget(player)
    /\ report.status = "Maxed"

\* C7: for any two snapshots of the same tier that differ only in that one
\* asset's level is lower in the second, the second's rush_score is >= the
\* first's.
C7_LowerLevelNeverLowersScore ==
    rel.kind = "degraded" =>
        /\ player2.townHallLevel = player.townHallLevel
        /\ FxLE(report.rush_score, report2.rush_score)

\* a troop lowered below its target: the score rises strictly
C7_Witness ==
    /\ rel.kind = "degraded"
    /\ rel.category = "troops"
    /\ player.townHallLevel >= 3
    /\ player2.troops[rel.index].level < player.troops[rel.index].level
    /\ ~FxLE(report2.rush_score, report.rush_score)

\* the score bands applied to tenths of a point
BandOfTenths(tenths) ==
    IF tenths <= 30 THEN [status |-> "Maxed", is_rushed |-> FALSE]
    ELSE IF tenths <= 100 THEN [status |-> "Slightly Behind", is_rushed |-> FALSE]
    ELSE IF tenths <= 250 THEN [status |-> "Moderately Rushed", is_rushed |-> TRUE]
    ELSE IF tenths <= 500 THEN [status |-> "Rushed", is_rushed |-> TRUE]
    ELSE [status |-> "Severely Rushed", is_rushed |-> TRUE]

\* ten times 1.0 x missing hero levels + 0.3 x missing troop levels
\* + 0.4 x missing spell levels
WeightedTenths(p) ==
    10 * MissingIn(p, "heroes") + 3 * MissingIn(p, "troops") + 4 * MissingIn(p, "spells")

\* C8: for tier >= 3 and total missing hero levels <= 20, the report is
\* classified by rush_score = 1.0 x missing hero levels + 0.3 x missing troop
\* levels + 0.4 x missing spell levels: <= 3 Maxed, <= 10 Slightly Behind,
\* <= 25 Moderately Rushed, <= 50 Rushed, above Severely Rushed; the last
\* three are is_rushed.
C8_BandsOfWeightedSum ==
    (report # None /\ player.townHallLevel >= 3 /\ MissingIn(player, "heroes") <= 20) =>
        /\ report.status = BandOfTenths(WeightedTenths(player)).status
        /\ report.is_rushed = BandOfTenths(WeightedTenths(player)).is_rushed

\* C9: whenever the total missing hero levels exceed 20 the status is
\* "Severely Rushed (Heroes)" and is_rushed is true, whatever band the
\* rush_score falls in; when the total is 20 or less the override does not
\* apply.
C9_HeroOverride ==
    (report # None /\ player.townHallLevel >= 3) =>
        IF MissingIn(player, "heroes") > 20
        THEN report.status = "Severely Rushed (Heroes)" /\ report.is_rushed = TRUE
        ELSE report.status # "Severely Rushed (Heroes)"

\* exactly 21 missing hero levels with a score in the Moderately Rushed band
C9_Witness ==
    /\ report # None
    /\ player.townHallLevel >= 3
    /\ MissingIn(player, "heroes") = 21
    /\ FxLE(report.rush_score, FxFromInt(25))
    /\ report.status = "Severely Rushed (Heroes)"

DroppedAsset == player[rel.category][rel.index]

\* C10: an asset whose (name, reference tier) pair has no entry in the
\* reference table is skipped entirely: the report equals the report of the
\* same player without that asset.
C10_AssetWithoutReferenceIsSkipped ==
    (rel.kind = "dropped"
        /\ ~HasTarget(rel.category, DroppedAsset, player.townHallLevel)) =>
        report2 = report

\* a home-village hero whose name is in the table but not at the reference
\* tier, dropped from a snapshot whose other assets miss levels
C10_Witness ==
    /\ rel.kind = "dropped"
    /\ rel.category = "heroes"
    /\ player.townHallLevel >= 3
    /\ DroppedAsset.village = "home"
    /\ DroppedAsset.name \in DOMAIN HERO_MAX_LEVELS
    /\ ~HasTarget("heroes", DroppedAsset, player.townHallLevel)
    /\ report.rushed_troops # <<>>
    /\ report2 = report

\* the asset of player that DegradeCall lowered or DropCall removed
TouchedAsset == player[rel.category][rel.index]

\* C11: only assets whose village flag is 'home' participate: adding, removing
\* or changing the level of a hero, troop or spell with another village value
\* leaves every field of the rush report unchanged.
C11_OtherVillageAssetsIgnored ==
    (rel.kind \in {"dropped", "degraded"} /\ TouchedAsset.village # "home") =>
        report2 = report

\* a builder-base troop whose name has a target at the reference tier and
\* whose level is below it, lowered further, in a snapshot that has a deficit
C11_Witness ==
    /\ rel.kind = "degraded"
    /\ player.townHallLevel >= 3
    /\ TouchedAsset.village = "builderBase"
    /\ HasTarget(rel.category, TouchedAsset, player.townHallLevel)
    /\ TouchedAsset.level < TargetOf(rel.category, TouchedAsset, player.townHallLevel)
    /\ player2[rel.category][rel.index].level < TouchedAsset.level
    /\ report.rush_score # FxFromInt(0)
    /\ report2 = report

\* what the scoreable assets of a snapshot can reach and what they have reached
TotalPossible(p) ==
    SumSeq([k \in 1..3 |->
        LET category == <<"heroes", "troops", "spells">>[k]
        IN SumSeq([i \in 1..Len(p[category]) |->
              IF Scored(category, p[category][i], p.townHallLevel)
              THEN TargetOf(category, p[category][i], p.townHallLevel)
              ELSE 0])])

TotalCurrent(p) ==
    SumSeq([k \in 1..3 |->
        LET category == <<"heroes", "troops", "spells">>[k]
        IN SumSeq([i \in 1..Len(p[category]) |->
              IF Scored(category, p[category][i], p.townHallLevel)
              THEN IF p[category][i].level <= TargetOf(category, p[category][i], p.townHallLevel)
                   THEN p[category][i].level
                   ELSE TargetOf(category, p[category][i], p.townHallLevel)
              ELSE 0])])

\* tenths is the one-decimal rounding of 100 - 100 * current / possible
IsRoundedPercentage(tenths, current, possible) ==
    LET twice == 2 * (tenths * possible - 1000 * (possible - current))
    IN -possible <= twice /\ twice <= possible

EntriesOf(tag) == {j \in 1..Len(war_output.stats) : war_output.stats[j].tag = tag}

IdleEntry(e) ==
    /\ e.attacks_used = 0
    /\ e.attacks = <<>>
    /\ e.total_stars = 0 /\ e.total_destruction = 0
    /\ e.three_stars = 0 /\ e.two_stars = 0 /\ e.one_star = 0 /\ e.zero_stars = 0
    /\ e.hit_up = 0 /\ e.hit_same = 0 /\ e.hit_down = 0

\* C13: analyze_war_attacks returns one entry for every clan-side roster
\* member of the war record, including members with no attacks, whose entry
\* has attacks_used = 0, an empty attacks list and all star and direction
\* counters 0.
C13_EveryRosterMemberHasAnEntry ==
    war_output # None =>
        /\ Len(war_output.stats) = Len(war_input.clan.members)
        /\ \A i \in 1..Len(war_input.clan.members) :
              LET member == war_input.clan.members[i]
              IN /\ Cardinality(EntriesOf(member.tag)) = 1
                 /\ \A j \in EntriesOf(member.tag) :
                       /\ war_output.stats[j].attacks_used = Len(member.attacks)
                       /\ member.attacks = <<>> => IdleEntry(war_output.stats[j])

\* two members, one with two attacks and one with none
C13_Witness ==
    /\ war_output # None
    /\ Len(war_input.clan.members) = 2
    /\ \E i, k \in 1..2 :
          /\ war_input.clan.members[i].attacks = <<>>
          /\ Len(war_input.clan.members[k].attacks) = 2
          /\ \E j \in EntriesOf(war_input.clan.members[i].tag) :
                IdleEntry(war_output.stats[j])

\* C14: for every member in the output of analyze_war_attacks, the
\* missed_attacks field equals 2 - attacks_used, for members with 0, 1 and 2
\* attacks alike.
C14_MissedAttacksIsTwoMinusUsed ==
    war_output # None =>
        \A j \in 1..Len(war_output.stats) :
            war_output.stats[j].attacks_used <= 2 =>
                war_output.stats[j].missed_attacks = 2 - war_output.stats[j].attacks_used

(***************************************************************************)
(* PROPERTIES OF THE CWL SEASON RECORD                                     *)
(***************************************************************************)
\* the step is a call of analyze_cwl that wrote the Season Record of its group
WroteSeasonRecord ==
    /\ last'.op = "cwl"
    /\ last'.state # "absent"
    /\ ("cwl_" \o last'.season) \in DOMAIN historical_data'.cwl_seasons
    /\ \/ ("cwl_" \o last'.season) \notin DOMAIN historical_data.cwl_seasons
       \/ historical_data'.cwl_seasons["cwl_" \o last'.season]
             # historical_data.cwl_seasons["cwl_" \o last'.season]

\* C15: the CWL Season Record that analyze_cwl writes has complete = TRUE
\* exactly when the state field of the league-group response is 'ended'.
C15_CompleteIffGroupEnded ==
    [][WroteSeasonRecord =>
          historical_data'.cwl_seasons["cwl_" \o last'.season].complete
              = (last'.state = "ended")]_vars

(***************************************************************************)
(* PROPERTIES OF A RUN OF MAIN                                             *)
(***************************************************************************)
\* main has called the function
HasCalled(name) == InSeq(name, run.calls)

\* C16: when get_clan_info or get_clan_members returns nothing the run aborts:
\* save_historical_data, generate_html_dashboard and export_dashboard_data are
\* never called and DATA_FILE is what it was before the run.
C16_AbortLeavesNoOutput ==
    (run.clan = "absent" \/ run.members = "absent") =>
        /\ pc = "aborted"
        /\ ~HasCalled("save_historical_data")
        /\ ~HasCalled("generate_html_dashboard")
        /\ ~HasCalled("export_dashboard_data")
        /\ disk = run.before

\* the clan was found, the roster was not, and a stored document is still in place
C16_Witness ==
    /\ pc = "aborted"
    /\ run.clan = "present"
    /\ run.members = "absent"
    /\ run.calls = <<"load_historical_data">>
    /\ run.before \in StoredFiles
    /\ run.before.players # <<>>
    /\ disk = run.before

\* the calls of a complete run, in order: the accumulator is only called by
\* the current-war step and by analyze_cwl
CompleteRun ==
    <<"load_historical_data", "current_war", "analyze_cwl", "save_historical_data",
      "generate_html_dashboard", "export_dashboard_data">>

IsPrefix(s, t) == Len(s) <= Len(t) /\ \A i \in 1..Len(s) : s[i] = t[i]

\* the clan, the roster and at least one player snapshot have arrived
MandatoryFetched == run.clan = "present" /\ run.members = "present" /\ run.players > 0

C18_CorruptFileLoadsAsEmpty ==
    (IsCorrupt(run.before) /\ HasCalled("load_historical_data")) =>
        /\ pc # "raised"
        /\ pc = "clan" => historical_data = create_empty_data_structure

\* C19: whenever the process dies, DATA_FILE is the document from before the
\* run or the complete new document, never an empty or truncated file.
C19_CrashLeavesCompleteDocument ==
    pc = "crashed" =>
        \/ disk = run.before
        \/ /\ HasCalled("save_historical_data")
           /\ disk = save_historical_data(historical_data)

(***************************************************************************)
(* PROPERTIES OF THE STAR BUCKETS                                          *)
(***************************************************************************)
\* the attacks of the record's history that have the given number of stars
HistoryWithStars(p, n) ==
    Cardinality({i \in 1..Len(p.attacks_history) : p.attacks_history[i].stars = n})

\* C20: in every Historical Player Record, after any sequence of
\* update_player_historical_stats calls from an empty store, total_attacks =
\* three_stars + two_stars + one_star + zero_stars = the length of
\* attacks_history, each recorded attack being counted in the bucket of its stars.
C20_BucketsSumToTotalAttacks ==
    \A tag \in DOMAIN historical_data.players :
        LET p == historical_data.players[tag]
        IN  /\ p.total_attacks = p.three_stars + p.two_stars + p.one_star + p.zero_stars
            /\ p.total_attacks = Len(p.attacks_history)
            /\ p.three_stars = HistoryWithStars(p, 3)
            /\ p.two_stars = HistoryWithStars(p, 2)
            /\ p.one_star = HistoryWithStars(p, 1)
            /\ p.zero_stars = HistoryWithStars(p, 0)

\* a record holds a one-star and a zero-star attack from two calls
C20_Witness ==
    /\ "#P1" \in DOMAIN historical_data.players
    /\ LET p == historical_data.players["#P1"]
       IN  /\ p.wars_participated = 2
           /\ p.total_attacks = 2
           /\ p.one_star = 1
           /\ p.zero_stars = 1

(***************************************************************************)
(* PROPERTIES OF THE EXTRACTOR'S COUNTERS                                  *)
(***************************************************************************)
\* the tier of the opponent with the tag, 0 when the roster has none
TierOfDefender(opponent_members, tag) ==
    IF \E i \in 1..Len(opponent_members) : opponent_members[i].tag = tag
    THEN opponent_members[CHOOSE i \in 1..Len(opponent_members) :
                              opponent_members[i].tag = tag].townhallLevel
    ELSE 0

\* how many of the member's attacks went against a tier d with cmp(d, own tier)
HitsWhere(member, cmp(_, _)) ==
    Cardinality({k \in 1..Len(member.attacks) :
        cmp(TierOfDefender(war_input.opponent.members, member.attacks[k].defenderTag),
            member.townhallLevel)})

TierAbove(d, th) == d > th
TierBelow(d, th) == d < th
TierEqual(d, th) == d = th

RECURSIVE StarsOfAttacks(_)
StarsOfAttacks(attacks) ==
    IF attacks = <<>> THEN 0 ELSE Head(attacks).stars + StarsOfAttacks(Tail(attacks))

\* C21: analyze_war_attacks puts every attack of a member into exactly one hit
\* direction by comparing tiers (an unknown defender has tier 0), so hit_up +
\* hit_same + hit_down = attacks_used = the four star buckets = the length of
\* the member's attacks list, and total_stars is the sum of the attacks' stars.
C21_HitDirectionsPartitionAttacks ==
    war_output # None =>
        \A i \in 1..Len(war_input.clan.members) :
            LET member == war_input.clan.members[i]
            IN  \A j \in EntriesOf(member.tag) :
                    LET e == war_output.stats[j]
                    IN  /\ e.hit_up = HitsWhere(member, TierAbove)
                        /\ e.hit_down = HitsWhere(member, TierBelow)
                        /\ e.hit_same = HitsWhere(member, TierEqual)
                        /\ e.hit_up + e.hit_same + e.hit_down = e.attacks_used
                        /\ e.attacks_used = e.three_stars + e.two_stars + e.one_star
                                            + e.zero_stars
                        /\ e.attacks_used = Len(member.attacks)
                        /\ Len(e.attacks) = Len(member.attacks)
                        /\ e.total_stars = StarsOfAttacks(member.attacks)

\* a member hit an equal tier and a defender that is in no roster
C21_Witness ==
    /\ war_output # None
    /\ \E j \in 1..Len(war_output.stats) :
          /\ war_output.stats[j].attacks_used = 2
          /\ war_output.stats[j].hit_same = 1
          /\ war_output.stats[j].hit_down = 1
          /\ \E k \in 1..2 : war_output.stats[j].attacks[k].defender_th = 0

(***************************************************************************)
(* PROPERTIES OF ANALYZE_CWL                                               *)
(***************************************************************************)
\* the last step was a call of analyze_cwl that found a league group
CwlCalled == last.op = "analyze_cwl" /\ last.cwl_group # None

\* the key of the Season Record of the group the last call was given
SeasonKeyOfCall == "cwl_" \o last.cwl_group.season

\* C22: a league war whose state is neither 'inWar' nor 'warEnded' is skipped by
\* analyze_cwl: no Historical Player Record gains a war_id or a counter, the
\* season's attack and star aggregate gains nothing, and the placeholder tag
\* '#0' is never fetched.
C22_UnstartedLeagueWarIsSkipped ==
    CwlCalled =>
        /\ ~InSeq("#0", last.fetched_tags)
        /\ (last.war # None /\ last.war.state \notin {"inWar", "warEnded"}) =>
              /\ historical_data.players = last.before.players
              /\ last.all_player_stats = <<>>
              /\ SeasonKeyOfCall \in DOMAIN historical_data.cwl_seasons =>
                    /\ historical_data.cwl_seasons[SeasonKeyOfCall].total_attacks = 0
                    /\ historical_data.cwl_seasons[SeasonKeyOfCall].total_stars = 0

\* our war of round 1 is in preparation, both scheduled wars were fetched and the
\* store holds a player from an earlier call
C22_Witness ==
    /\ CwlCalled
    /\ last.war # None
    /\ last.war.state = "preparation"
    /\ last.fetched_tags = <<"#W2", "#W1">>
    /\ last.wars_analyzed = 1
    /\ "#P1" \in DOMAIN last.before.players
    /\ historical_data.players = last.before.players

\* the side of the war that carries our tag, and the other one
OursIn(war) == IF war.clan.tag = CLAN_TAG THEN war.clan ELSE war.opponent
TheirsIn(war) == IF war.clan.tag = CLAN_TAG THEN war.opponent ELSE war.clan

\* the tags of the members of both sides of a war
TagsIn(war) ==
    {war.clan.members[i].tag : i \in 1..Len(war.clan.members)}
    \cup {war.opponent.members[i].tag : i \in 1..Len(war.opponent.members)}

\* the member's attacks on a defender of a higher tier in the roster
HitsUpOn(member, opponent_members) ==
    Cardinality({k \in 1..Len(member.attacks) :
        TierOfDefender(opponent_members, member.attacks[k].defenderTag)
            > member.townhallLevel})

\* C23: analyze_cwl finds our clan by tag on either side of a fetched war; on
\* the 'opponent' side the sides are swapped, so our members are the attackers
\* and the other clan's members the defenders; a war without our tag on either
\* side adds nothing to the records, the season aggregate or wars_analyzed.
C23_OurSideFoundOnEitherSide ==
    CwlCalled =>
        /\ last.wars_analyzed = IF last.war = None THEN 0 ELSE 1
        /\ \A t \in TagsIn(ForeignCwlWar) :
              /\ t \notin DOMAIN last.all_player_stats
              /\ t \in DOMAIN historical_data.players => t \in DOMAIN last.before.players
        /\ last.war = None => historical_data = last.before
        /\ (last.war # None /\ last.war.state \in {"inWar", "warEnded"}) =>
              LET ours   == OursIn(last.war).members
                  theirs == TheirsIn(last.war).members
                  war_id == CwlWarId(last.cwl_group.season, 1, "#W1")
              IN  /\ DOMAIN last.all_player_stats = {ours[i].tag : i \in 1..Len(ours)}
                  /\ \A i \in 1..Len(ours) :
                        LET e == last.all_player_stats[ours[i].tag]
                        IN  /\ e.attacks_used = Len(ours[i].attacks)
                            /\ e.hit_up = HitsUpOn(ours[i], theirs)
                            /\ ours[i].tag \in DOMAIN historical_data.players
                            /\ InSeq(war_id, historical_data.players[ours[i].tag].war_ids)

\* our clan is on the 'opponent' side and its member's hit up on the other
\* clan's roster is recorded for the first time
C23_Witness ==
    /\ CwlCalled
    /\ last.war # None
    /\ last.war.opponent.tag = CLAN_TAG
    /\ last.war.state = "warEnded"
    /\ "#P1" \in DOMAIN last.all_player_stats
    /\ last.all_player_stats["#P1"].hit_up = 1
    /\ "#P1" \notin DOMAIN last.before.players
    /\ historical_data.players["#P1"].total_attacks = 1

(***************************************************************************)
(* THE PERCENTAGES AND AVERAGES OF THE REPORT FUNCTIONS                    *)
(***************************************************************************)

\* Python's a / b: ZeroDivisionError on a zero divisor, else the quotient
TrueDiv(a, b) ==
    IF b = 0 THEN Raised("ZeroDivisionError") ELSE [num |-> a, den |-> b]

\* the figures a function prints, in order; an expression that raises ends the
\* function with that exception
Printed(figures) ==
    IF \E i \in 1..Len(figures) : figures[i] = Raised("ZeroDivisionError")
    THEN Raised("ZeroDivisionError")
    ELSE [printed |-> figures]

\* analyze_clan_rush: the clan rush overview over the reports of players_data
analyze_clan_rush(players_data) ==
    LET rush_reports == [i \in 1..Len(players_data) |-> generate_rush_report(players_data[i])]
        rushed_count == Cardinality({i \in 1..Len(rush_reports) : rush_reports[i].is_rushed})
        total        == Len(rush_reports)
    IN  Printed(<<TrueDiv(rushed_count, total), TrueDiv(total - rushed_count, total)>>)

\* "ratio = donated / received if received > 0 else donated"
DonationRatio(member) ==
    IF member.donationsReceived > 0
    THEN TrueDiv(member.donations, member.donationsReceived)
    ELSE [num |-> member.donations, den |-> 1]

\* analyze_members: the trophy and experience averages, then the donation ratios
analyze_members(members) ==
    LET trophies == [i \in 1..Len(members) |-> members[i].trophies]
        levels   == [i \in 1..Len(members) |-> members[i].expLevel]
    IN  Printed(<<TrueDiv(SumSeq(trophies), Len(trophies)),
                  TrueDiv(SumSeq(levels), Len(levels))>>
                \o [i \in 1..Len(members) |-> DonationRatio(members[i])])

\* analyze_warlog: the share of each result, then the star and destruction
\* averages; warlog is None or [items |-> the list]
analyze_warlog(warlog) ==
    IF warlog = None \/ warlog.items = <<>> THEN [printed |-> <<>>]
    ELSE LET log == warlog.items
             n   == Len(log)
             wins == Cardinality({i \in 1..n : log[i].result = "win"})
             stars_for     == SumSeq([i \in 1..n |-> log[i].clan.stars])
             stars_against == SumSeq([i \in 1..n |-> log[i].opponent.stars])
         IN  Printed(<<TrueDiv(wins, n), TrueDiv(n - wins, n),
                       TrueDiv(stars_for, n), TrueDiv(stars_against, n)>>)

\* all_attacks of analyze_war_attacks: the attacks of every member of our side
RECURSIVE AllAttacks(_)
AllAttacks(members) ==
    IF members = <<>> THEN <<>>
    ELSE Head(members).attacks \o AllAttacks(Tail(members))

\* the attack summary that ends analyze_war_attacks
attack_summary(war) ==
    LET all_attacks   == AllAttacks(war.clan.members)
        total_attacks == Len(all_attacks)
        total_stars   == SumSeq([i \in 1..total_attacks |-> all_attacks[i].stars])
        three_stars   == Cardinality({i \in 1..total_attacks : all_attacks[i].stars = 3})
    IN  IF total_attacks > 0
        THEN Printed(<<TrueDiv(total_stars, total_attacks),
                       TrueDiv(three_stars, total_attacks)>>)
        ELSE [printed |-> <<>>]

\* the overall summary that ends analyze_cwl, st the state CwlLoop returns
cwl_overall_summary(st) ==
    LET aps           == st.all_player_stats
        total_attacks == SumField(aps, DOMAIN aps, "attacks_used")
        total_stars   == SumField(aps, DOMAIN aps, "total_stars")
    IN  IF st.wars_analyzed > 0 /\ DOMAIN aps # {}
        THEN IF total_attacks > 0
             THEN Printed(<<TrueDiv(total_stars, total_attacks)>>)
             ELSE [printed |-> <<"N/A">>]
        ELSE [printed |-> <<>>]

\* print_historical_summary: the all-time average of the store
print_historical_summary(hd) ==
    LET players       == hd.players
        total_attacks == SumField(players, DOMAIN players, "total_attacks")
        total_stars   == SumField(players, DOMAIN players, "total_stars")
    IN  IF DOMAIN players = {} THEN [printed |-> <<>>]
        ELSE IF total_attacks > 0
             THEN Printed(<<TrueDiv(total_stars, total_attacks)>>)
             ELSE [printed |-> <<>>]

MaxListed == 2    \* entries of a player list, member list or war log

\* player snapshots: one without assets, one with a hero far behind
RatioPlayers ==
    { [townHallLevel |-> 10, heroes |-> h, troops |-> <<>>, spells |-> <<>>] :
      h \in {<<>>, <<Asset("Barbarian King", 9, "home")>>} }

RatioMembers ==
    { [trophies |-> 0, expLevel |-> 1, donations |-> 0, donationsReceived |-> 0],
      [trophies |-> 2000, expLevel |-> 100, donations |-> 10, donationsReceived |-> 5] }

RatioWarlogEntries ==
    { [result   |-> r,
       clan     |-> [stars |-> IF r = "win" THEN 3 ELSE 0],
       opponent |-> [stars |-> 1]] : r \in {"win", "lose"} }

\* one call of a report function on its own
RatioCall(op, input, result) ==
    /\ last' = [op |-> op, input |-> input, result |-> result]
    /\ UNCHANGED <<historical_data, mainVars, rushVars, warVars, runVars>>

CallRushReport ==
    \E p \in RatioPlayers :
        RatioCall("generate_rush_report", p,
                  [printed |-> <<generate_rush_report(p).rush_percentage>>])

CallClanRush ==
    \E players_data \in SeqsUpTo(RatioPlayers, MaxListed) :
        RatioCall("analyze_clan_rush", players_data, analyze_clan_rush(players_data))

CallMembers ==
    \E members \in SeqsUpTo(RatioMembers, MaxListed) :
        RatioCall("analyze_members", members, analyze_members(members))

CallWarlog ==
    \E warlog \in {None} \cup {[items |-> s] : s \in SeqsUpTo(RatioWarlogEntries, MaxListed)} :
        RatioCall("analyze_warlog", warlog, analyze_warlog(warlog))

CallWarAttacks ==
    \E war \in ExtractorWars :
        RatioCall("analyze_war_attacks", war, attack_summary(war))

CallCwlSummary ==
    \E cwl_group \in CwlGroups \ {None}, fetched \in CwlFetches, now \in Dates :
        RatioCall("analyze_cwl", fetched,
                  cwl_overall_summary(CwlLoop(CLAN_TAG, create_empty_data_structure,
                                              cwl_group, fetched, now)))

CallHistoricalSummary ==
    \E cwl_group \in CwlGroups, fetched \in CwlFetches, now \in Dates :
        LET hd == analyze_cwl(CLAN_TAG, create_empty_data_structure, cwl_group, fetched, now)
        IN  RatioCall("print_historical_summary", hd, print_historical_summary(hd))

NextRatios ==
    \/ CallRushReport
    \/ CallClanRush
    \/ CallMembers
    \/ CallWarlog
    \/ CallWarAttacks
    \/ CallCwlSummary
    \/ CallHistoricalSummary

SpecRatios == Init /\ [][NextRatios]_vars

RatioOps ==
    {"generate_rush_report", "analyze_clan_rush", "analyze_members", "analyze_warlog",
     "analyze_war_attacks", "analyze_cwl", "print_historical_summary"}

\* C24: every percentage and average of generate_rush_report, analyze_clan_rush,
\* analyze_members, analyze_warlog, analyze_war_attacks, analyze_cwl and
\* print_historical_summary guards its divisor: on an empty player list, member
\* list or war log, or an attack count of 0, the function completes without a
\* ZeroDivisionError.
C24_NoRatioRaisesOnZero ==
    (last.op \in RatioOps /\ "result" \in DOMAIN last) =>
        last.result # Raised("ZeroDivisionError")

(***************************************************************************)
(* RUN AFTER RUN, WITH RUNS THAT DIE IN THE FINAL WRITE                    *)
(***************************************************************************)
\* the process dies inside save_historical_data: DATA_FILE was opened with
\* mode 'w' and json.dump has written nothing or a part of the document; last
\* keeps the file that the earlier runs had left
MainSaveCrash ==
    /\ pc = "cwl_done"
    /\ \E file \in {open_for_writing, flushed_buffer} : disk' = file
    /\ last' = [op |-> "crash", before |-> disk]
    /\ pc' = "idle"
    /\ UNCHANGED <<historical_data, rushVars, warVars, runVars>>

NextRuns == NextMain \/ MainSaveCrash

SpecRuns == Init /\ [][NextRuns]_vars

\* every record of old is in new, with its lists extended and no counter lower
RecordsKept(old, new) ==
    \A t \in DOMAIN old :
        /\ t \in DOMAIN new
        /\ IsPrefix(old[t].war_ids, new[t].war_ids)
        /\ IsPrefix(old[t].attacks_history, new[t].attacks_history)
        /\ old[t].total_attacks <= new[t].total_attacks
        /\ old[t].total_stars <= new[t].total_stars
        /\ old[t].total_destruction <= new[t].total_destruction
        /\ old[t].three_stars <= new[t].three_stars
        /\ old[t].two_stars <= new[t].two_stars
        /\ old[t].one_star <= new[t].one_star
        /\ old[t].zero_stars <= new[t].zero_stars
        /\ old[t].wars_participated <= new[t].wars_participated
        /\ old[t].cwl_seasons <= new[t].cwl_seasons
        /\ old[t].current_th <= new[t].current_th

\* the store as the runs so far left it: the one in memory, or, when the last
\* run died in the final write, the one the runs before it had saved
StoreSoFar ==
    IF last.op = "crash"
    THEN IF last.before = NoFile \/ IsCorrupt(last.before)
         THEN create_empty_data_structure
         ELSE last.before
    ELSE historical_data

\* C25: over any sequence of runs and Accumulator calls a Historical Player
\* Record once created is never removed or reset: after every step the record
\* is still there, its war_ids and attacks_history before the step are prefixes
\* of those after it, and no counter is lower.
C25_RecordsOnlyGrow ==
    [][RecordsKept(StoreSoFar.players, historical_data'.players)]_vars

(***************************************************************************)
(* THE RUSHED FLAG OF THE RUSH SCORER                                      *)
(***************************************************************************)
\* C26: in the report of generate_rush_report for tier >= 3, is_rushed is true
\* exactly when rush_score > 10; the hero override never changes the flag,
\* because hero_score is the total of the missing hero levels and rush_score
\* is at least hero_score.
C26_RushedIffScoreAboveTen ==
    (report # None /\ player.townHallLevel >= 3) =>
        /\ report.is_rushed = ~FxLE(report.rush_score, FxFromInt(10))
        /\ report.hero_score = MissingIn(player, "heroes")
        /\ report.total_missing_hero_levels = report.hero_score
        /\ FxLE(FxFromInt(report.hero_score), report.rush_score)

\* the override applies to a player who also misses troop levels
C26_Witness ==
    /\ report # None
    /\ player.townHallLevel >= 3
    /\ MissingIn(player, "heroes") > 20
    /\ MissingIn(player, "troops") > 0
    /\ report.status = "Severely Rushed (Heroes)"
    /\ report.is_rushed

(***************************************************************************)
(* A REGULAR WAR MET IN PREPARATION                                        *)
(***************************************************************************)
\* the ID of the war that main has just been given
WarIdOfLast(l) ==
    generate_war_id([clan                 |-> [tag |-> l.clan_tag],
                     opponent             |-> [tag |-> l.opponent_tag],
                     preparationStartTime |-> l.preparationStartTime])

\* C27: a run of main that sees a regular war in state 'preparation' does not
\* consume the war's ID: no Historical Player Record gains that ID in the run,
\* so that the first later run that sees the war in 'inWar' or 'warEnded' adds
\* the attacks visible then to each roster member's record.
C27_PreparationKeepsWarIdFree ==
    [][(last'.op = "current_war" /\ last'.state = "preparation") =>
          \A t \in DOMAIN historical_data'.players :
              InSeq(WarIdOfLast(last'), historical_data'.players[t].war_ids)
              => /\ t \in DOMAIN historical_data.players
                 /\ InSeq(WarIdOfLast(last'), historical_data.players[t].war_ids)]_vars

(***************************************************************************)
(* analyze_cwl ON A STORE THAT HOLDS A FINALIZED SEASON                    *)
(***************************************************************************)
\* the store read from a DATA_FILE whose Season Record of CwlSeason is complete
FinalizedStore ==
    [create_empty_data_structure EXCEPT !.cwl_seasons =
        [k \in {"cwl_" \o CwlSeason} |->
            [season        |-> CwlSeason,
             wars_analyzed |-> 1,
             total_attacks |-> 1,
             total_stars   |-> 2,
             recorded_date |-> "2025-01-01T10:00:00",
             complete      |-> TRUE]]]

\* analyze_cwl is given an empty store or the store with the finalized season
InitSeasons ==
    /\ historical_data \in {create_empty_data_structure, FinalizedStore}
    /\ last = [op |-> "start"]
    /\ disk = NoFile
    /\ pc = "idle"
    /\ InitRush
    /\ InitWar
    /\ InitRun

SpecSeasons == InitSeasons /\ [][NextCwl]_vars

\* the season's record is in the store and its complete flag is true
Finalized(hd, season_key) ==
    /\ season_key \in DOMAIN hd.cwl_seasons
    /\ hd.cwl_seasons[season_key].complete

C29_WarIdsConsistent ==
    \A t \in DOMAIN historical_data.players :
        LET p == historical_data.players[t]
        IN  /\ \A i, j \in 1..Len(p.war_ids) : p.war_ids[i] = p.war_ids[j] => i = j
            /\ p.wars_participated = Len(p.war_ids)
            /\ \A k \in 1..Len(p.attacks_history) :
                  InSeq(p.attacks_history[k].war_id, p.war_ids)

\* a player recorded in two wars, with an attack in each, is given one of the
\* two wars again
C29_Witness ==
    /\ last.op = "update"
    /\ ~last.recorded
    /\ Len(historical_data.players[last.player_tag].war_ids) = 2
    /\ Len(historical_data.players[last.player_tag].attacks_history) = 2
    /\ historical_data.players[last.player_tag].attacks_history[1].war_id
         # historical_data.players[last.player_tag].attacks_history[2].war_id

(***************************************************************************)
(* THE DASHBOARD'S RUSH SCORER (streamlit_app.py)                          *)
(*                                                                         *)
(* The dashboard has its own table of hero levels, its own lookup, which   *)
(* walks down from the previous tier, and its own scorer, which reads the  *)
(* heroes only.  rush_score is a binary64 float.                           *)
(***************************************************************************)
dashboard_HERO_MAX_LEVELS ==
    "Barbarian King" :> (7 :> 5 @@ 8 :> 10 @@ 9 :> 30 @@ 10 :> 40 @@ 11 :> 50 @@ 12 :> 65 @@ 13 :> 75 @@ 14 :> 80 @@ 15 :> 90 @@ 16 :> 95 @@ 17 :> 100) @@
    "Archer Queen" :> (9 :> 30 @@ 10 :> 40 @@ 11 :> 50 @@ 12 :> 65 @@ 13 :> 75 @@ 14 :> 80 @@ 15 :> 90 @@ 16 :> 95 @@ 17 :> 100) @@
    "Grand Warden" :> (11 :> 20 @@ 12 :> 40 @@ 13 :> 50 @@ 14 :> 55 @@ 15 :> 65 @@ 16 :> 70 @@ 17 :> 75) @@
    "Royal Champion" :> (13 :> 25 @@ 14 :> 30 @@ 15 :> 40 @@ 16 :> 45 @@ 17 :> 50) @@
    "Minion Prince" :> (8 :> 15 @@ 9 :> 20 @@ 10 :> 25 @@ 11 :> 30 @@ 12 :> 40 @@ 13 :> 50 @@ 14 :> 55 @@ 15 :> 65 @@ 16 :> 70 @@ 17 :> 75)

\* "for th in range(prev_th, 0, -1): if th in levels: return levels[th]"
dashboard_get_max_level_for_th(item_name, th_level, level_dict) ==
    IF item_name \notin DOMAIN level_dict THEN None
    ELSE LET levels == level_dict[item_name]
             below  == {th \in 1..(th_level - 1) : th \in DOMAIN levels}
         IN  IF below = {} THEN None
             ELSE Level(levels[CHOOSE th \in below : \A u \in below : u <= th])

\* the report for th_level <= 7
dashboard_LowTierReport(th_level) ==
    [th_level                  |-> th_level,
     is_rushed                 |-> FALSE,
     rush_score                |-> FxFromInt(0),
     rushed_heroes             |-> <<>>,
     status                    |-> "Maxed",
     total_missing_hero_levels |-> 0]

\* one iteration of "for hero in heroes"
dashboard_CheckHero(acc, hero, th_level) ==
    LET target_level == dashboard_get_max_level_for_th(hero.name, th_level,
                                                       dashboard_HERO_MAX_LEVELS)
    IN  IF target_level = None \/ target_level = Level(0) THEN acc
        ELSE LET acc1 == [acc EXCEPT !.total_hero_max = @ + target_level.level]
             IN  IF hero.level < target_level.level
                 THEN [acc1 EXCEPT
                         !.total_hero_deficit = @ + (target_level.level - hero.level),
                         !.rushed_heroes = Append(@, [name    |-> hero.name,
                                                      current |-> hero.level,
                                                      target  |-> target_level.level,
                                                      deficit |-> target_level.level - hero.level])]
                 ELSE acc1

RECURSIVE dashboard_CheckHeroes(_, _, _)
dashboard_CheckHeroes(acc, heroes, th_level) ==
    IF heroes = <<>> THEN acc
    ELSE dashboard_CheckHeroes(dashboard_CheckHero(acc, Head(heroes), th_level),
                               Tail(heroes), th_level)

\* (total_hero_deficit / total_hero_max * 100) if total_hero_max > 0 else 0
dashboard_RushScore(total_hero_deficit, total_hero_max) ==
    IF total_hero_max > 0
    THEN FloatMulInt(100, FloatDivInt(total_hero_deficit, total_hero_max))
    ELSE FxFromInt(0)

\* rush_score < n
dashboard_Below(rush_score, n) == ~FxLE(FxFromInt(n), rush_score)

\* "Determine status": the if/elif chain on rush_score
dashboard_Status(rush_score, total_hero_deficit) ==
    IF dashboard_Below(rush_score, 3) THEN "Maxed"
    ELSE IF dashboard_Below(rush_score, 10) THEN "Slightly Behind"
    ELSE IF dashboard_Below(rush_score, 25)
         THEN IF total_hero_deficit >= 15 THEN "Severely Rushed (Heroes)"
              ELSE "Moderately Rushed"
    ELSE IF dashboard_Below(rush_score, 50)
         THEN IF total_hero_deficit >= 15 THEN "Severely Rushed (Heroes)"
              ELSE "Rushed"
    ELSE "Severely Rushed (Heroes)"

\* generate_rush_report of streamlit_app.py
dashboard_generate_rush_report(p) ==
    IF p.townHallLevel <= 7 THEN dashboard_LowTierReport(p.townHallLevel)
    ELSE LET acc == dashboard_CheckHeroes([total_hero_deficit |-> 0,
                                           total_hero_max     |-> 0,
                                           rushed_heroes      |-> <<>>],
                                          p.heroes, p.townHallLevel)
             rush_score == dashboard_RushScore(acc.total_hero_deficit, acc.total_hero_max)
         IN  [th_level                  |-> p.townHallLevel,
              is_rushed                 |-> \/ ~dashboard_Below(rush_score, 10)
                                            \/ acc.total_hero_deficit >= 15,
              rush_score                |-> rush_score,
              rushed_heroes             |-> acc.rushed_heroes,
              status                    |-> dashboard_Status(rush_score, acc.total_hero_deficit),
              total_missing_hero_levels |-> acc.total_hero_deficit]

\* the tiers and heroes of the snapshots given to the dashboard's scorer
DashboardTiers == {7, 9, 14}

DashboardHeroCatalog ==
    {Asset("Barbarian King", l, "home") : l \in {5, 7, 60, 65, 75}}
        \cup {Asset("Archer Queen", l, "home") : l \in {40, 75}}
        \cup {Asset("Grand Warden", 50, "home"), Asset("Battle Machine", 5, "builderBase")}

InitDashboard ==
    /\ \E th \in DashboardTiers, nh \in 0..MaxAssets :
         \E heroes \in AssetLists(DashboardHeroCatalog, nh) :
             player = [townHallLevel |-> th, heroes |-> heroes,
                       troops |-> <<>>, spells |-> <<>>]
    /\ report = None
    /\ player2 = None
    /\ report2 = None
    /\ rel = NoRelation
    /\ InitStore
    /\ InitWar
    /\ InitRun

DashboardScoreCall ==
    /\ report = None
    /\ report' = dashboard_generate_rush_report(player)
    /\ UNCHANGED <<player, player2, report2, rel, accVars, mainVars, warVars, runVars>>

NextDashboard == DashboardScoreCall

SpecDashboard == InitDashboard /\ [][NextDashboard]_vars

\* C30: in the report of the dashboard's scorer the is_rushed flag and the
\* status label agree: is_rushed is true exactly when the status is Moderately
\* Rushed, Rushed or Severely Rushed (Heroes), and false exactly when it is
\* Maxed or Slightly Behind.
C30_FlagAgreesWithStatus ==
    report # None =>
        /\ report.is_rushed
              <=> report.status \in {"Moderately Rushed", "Rushed", "Severely Rushed (Heroes)"}
        /\ ~report.is_rushed <=> report.status \in {"Maxed", "Slightly Behind"}

====
